---- MODULE Spec2Model ----
(***************************************************************************)
(* Model of the batman-adv generic netlink configuration interface         *)
(* (net/batman-adv/netlink_cfg.c): three option tables (soft interface,    *)
(* hard interface, VLAN), the get/set/dump handlers of each, the value     *)
(* decoder, the message builder and the change notifiers.                  *)
(***************************************************************************)
EXTENDS Integers, Sequences, FiniteSets, TLC

VARIABLES
    config,     \* the CONFIG_BATMAN_ADV_* symbols the module was built with
    objs,       \* option storage: bat_priv, softif_vlan and hard_iface fields
    refcnt,     \* reference count of every net_device / hard_iface / vlan
    pc,         \* "idle", "done" (a request returned) or "dumping"
    last,       \* what the last handler call did (request, return, trace)
    cb,         \* netlink_callback of the dump in progress (args[0], nlh)
    nsets,      \* number of set callbacks that have run (bounded)
    procs       \* the set requests that run at the same time, each with its
                \* position in batadv_set_option()

vars == <<config, objs, refcnt, pc, last, cb, nsets, procs>>

----------------------------------------------------------------------------
(* Bounds of the model *)

\* number of set callbacks a behaviour may run
MaxSets == 1
\* tailroom of the small dump buffer the transport may hand to a dump call
MsgCap == 150
\* number of set requests that run at the same time
NProcs == 2

----------------------------------------------------------------------------
(* Constants of the kernel and of batman-adv used by the code *)

EINVAL == 22
ENODEV == 19
ENOENT == 2
ENOMEM == 12
ERANGE == 34
EMSGSIZE == 90
EOPNOTSUPP == 95

BATADV_TQ_MAX_VALUE == 255
BATADV_JITTER == 20
INT_MAX == 2147483647
BATADV_DBG_ALL == 255
BATADV_VLAN_HAS_TAG == 32768
VLAN_VID_MASK == 4095
BATADV_NO_FLAGS == 0
__BATADV_PARAM_MAX_STRING_VALUE == 32
NLMSG_DEFAULT_SIZE == 3760
NLMSG_HDRLEN == 16
GENL_HDRLEN == 4
NLA_HDRLEN == 4

BATADV_GW_MODE_OFF == 0
BATADV_GW_MODE_CLIENT == 1
BATADV_GW_MODE_SERVER == 2

\* "off", "client", "server" as the bytes of the C string (no terminator)
BATADV_GW_MODE_OFF_NAME == <<111, 102, 102>>
BATADV_GW_MODE_CLIENT_NAME == <<99, 108, 105, 101, 110, 116>>
BATADV_GW_MODE_SERVER_NAME == <<115, 101, 114, 118, 101, 114>>

Min(a, b) == IF a < b THEN a ELSE b

----------------------------------------------------------------------------
(* The devices the handlers resolve.  The handlers only look objects up;   *)
(* creation and destruction of interfaces is outside this file.            *)

\* ifindexes for which dev_get_by_index() finds a device
NetDevs == 1 .. 6
\* devices that are batman-adv soft interfaces (mesh instances)
Meshes == {1, 2, 3}
\* devices with a batadv_hard_iface object, and the mesh each is enslaved to
HardIfs == {4, 5}
hard_iface_soft_iface == [h \in HardIfs |-> IF h = 4 THEN 1 ELSE 2]
\* the softif_vlan objects: <<mesh, vid>>, vid carrying BATADV_VLAN_HAS_TAG
VlanObjs == { <<1, BATADV_NO_FLAGS>>, <<1, BATADV_VLAN_HAS_TAG + 10>>,
              <<2, BATADV_NO_FLAGS>>, <<2, BATADV_VLAN_HAS_TAG>>,
              <<3, BATADV_VLAN_HAS_TAG + 10>> }
\* bat_priv->algo_ops->gw of each mesh: which callbacks are set
algo_ops_gw == [m \in Meshes |->
    [get_best_gw_node |-> m # 2, is_eligible |-> m # 2,
     store_sel_class |-> m = 3]]

\* object identifiers used for reference counts and traces
NullObj == <<"null", 0, 0>>
DevObj(i) == <<"dev", i, 0>>
HardIfObj(h) == <<"hardif", h, 0>>
VlanObj(m, vid) == <<"vlan", m, vid>>
AllObjs == {DevObj(i) : i \in NetDevs} \cup {HardIfObj(h) : h \in HardIfs}
           \cup {VlanObj(v[1], v[2]) : v \in VlanObjs}

dev_get_by_index(ifindex) == IF ifindex \in NetDevs THEN DevObj(ifindex) ELSE NullObj
batadv_softif_is_valid(dev) == dev[2] \in Meshes
batadv_hardif_get_by_netdev(dev) ==
    IF dev[2] \in HardIfs THEN HardIfObj(dev[2]) ELSE NullObj
batadv_softif_vlan_get(m, vid) ==
    IF <<m, vid>> \in VlanObjs THEN VlanObj(m, vid) ELSE NullObj

\* trace events of one handler call
Ev(e, o, n) == [ev |-> e, obj |-> o, opt |-> n]
Hold(o) == Ev("hold", o, "")
Put(o) == Ev("put", o, "")

----------------------------------------------------------------------------
(* union batadv_config_value *)

NoVal == [vu8 |-> 0, vu16 |-> 0, vu32 |-> 0, vbool |-> 0, string |-> <<>>]
VBool(b) == [NoVal EXCEPT !.vbool = b]
\* a u32; the model checker's integers end at INT_MAX, so the u32 values of the
\* model are those below 2^31 and storing one never wraps
VU32(n) == [NoVal EXCEPT !.vu32 = n]
VStr(s) == [NoVal EXCEPT !.string = s]
\* !!x
NotNot(x) == IF x # 0 THEN 1 ELSE 0

----------------------------------------------------------------------------
(* The get/set/validate callbacks of the options.  A get returns            *)
(* [ret, val, ev]; a set returns [ret, s, ev] with s the option storage     *)
(* after the call; a validate returns the error code.  ev lists the         *)
(* references taken and dropped and the calls into other subsystems.        *)

GetOk(v) == [ret |-> 0, val |-> v, ev |-> <<>>]
GetErr(e) == [ret |-> -e, val |-> NoVal, ev |-> <<>>]
SetOk(s2, evs) == [ret |-> 0, s |-> s2, ev |-> evs]
SetErr(s, e) == [ret |-> -e, s |-> s, ev |-> <<>>]
Call(fn, m) == Ev(fn, DevObj(m), "")
GwApiMissing(m) ==
    ~algo_ops_gw[m].get_best_gw_node \/ ~algo_ops_gw[m].is_eligible

batadv_option_get_aggregated_ogms(s, m, ext) ==
    GetOk(VBool(NotNot(s.priv[m].aggregated_ogms)))
batadv_option_set_aggregated_ogms(s, m, ext, val) ==
    SetOk([s EXCEPT !.priv[m].aggregated_ogms = val.vbool], <<>>)
\* the same without batadv_softif_vlan_put()
batadv_option_get_ap_isolation_noput(s, m, ext) ==
    LET vlan == batadv_softif_vlan_get(m, BATADV_NO_FLAGS) IN
    IF vlan = NullObj THEN GetErr(ENOENT)
    ELSE [ret |-> 0,
          val |-> VBool(NotNot(s.vlan[<<m, BATADV_NO_FLAGS>>].ap_isolation)),
          ev |-> <<Hold(vlan)>>]
batadv_option_get_ap_isolation(s, m, ext) ==
    LET vlan == batadv_softif_vlan_get(m, BATADV_NO_FLAGS) IN
    IF vlan = NullObj THEN GetErr(ENOENT)
    ELSE [ret |-> 0,
          val |-> VBool(NotNot(s.vlan[<<m, BATADV_NO_FLAGS>>].ap_isolation)),
          ev |-> <<Hold(vlan), Put(vlan)>>]
batadv_option_set_ap_isolation(s, m, ext, val) ==
    LET vlan == batadv_softif_vlan_get(m, BATADV_NO_FLAGS) IN
    IF vlan = NullObj THEN SetErr(s, ENOENT)
    ELSE SetOk([s EXCEPT !.vlan[<<m, BATADV_NO_FLAGS>>].ap_isolation = val.vbool],
               <<Hold(vlan), Put(vlan)>>)
batadv_option_get_bonding(s, m, ext) ==
    GetOk(VBool(NotNot(s.priv[m].bonding)))
batadv_option_set_bonding(s, m, ext, val) ==
    SetOk([s EXCEPT !.priv[m].bonding = val.vbool], <<>>)
batadv_option_get_bridge_loop_avoidance(s, m, ext) ==
    GetOk(VBool(NotNot(s.priv[m].bridge_loop_avoidance)))
batadv_option_set_bridge_loop_avoidance(s, m, ext, val) ==
    SetOk([s EXCEPT !.priv[m].bridge_loop_avoidance = val.vbool], <<Call("batadv_bla_status_update", m)>>)
batadv_option_get_distributed_arp_table(s, m, ext) ==
    GetOk(VBool(NotNot(s.priv[m].distributed_arp_table)))
batadv_option_set_distributed_arp_table(s, m, ext, val) ==
    SetOk([s EXCEPT !.priv[m].distributed_arp_table = val.vbool], <<Call("batadv_dat_status_update", m)>>)
batadv_option_get_fragmentation(s, m, ext) ==
    GetOk(VBool(NotNot(s.priv[m].fragmentation)))
batadv_option_set_fragmentation(s, m, ext, val) ==
    SetOk([s EXCEPT !.priv[m].fragmentation = val.vbool], <<Call("batadv_update_min_mtu", m)>>)
batadv_option_get_gw_bandwidth_down(s, m, ext) ==
    GetOk(VU32(s.priv[m].gw_bandwidth_down))
batadv_option_set_gw_bandwidth_down(s, m, ext, val) ==
    SetOk([s EXCEPT !.priv[m].gw_bandwidth_down = val.vu32], <<Call("batadv_gw_tvlv_container_update", m)>>)
batadv_option_get_gw_bandwidth_up(s, m, ext) ==
    GetOk(VU32(s.priv[m].gw_bandwidth_up))
batadv_option_set_gw_bandwidth_up(s, m, ext, val) ==
    SetOk([s EXCEPT !.priv[m].gw_bandwidth_up = val.vu32], <<Call("batadv_gw_tvlv_container_update", m)>>)
batadv_option_get_gw_mode(s, m, ext) ==
    IF GwApiMissing(m) THEN GetErr(EOPNOTSUPP)
    ELSE IF s.priv[m].gw_mode = BATADV_GW_MODE_CLIENT
         THEN GetOk(VStr(BATADV_GW_MODE_CLIENT_NAME))
    ELSE IF s.priv[m].gw_mode = BATADV_GW_MODE_SERVER
         THEN GetOk(VStr(BATADV_GW_MODE_SERVER_NAME))
    ELSE GetOk(VStr(BATADV_GW_MODE_OFF_NAME))
\* the same callback storing the mode before batadv_gw_check_client_stop()
batadv_option_set_gw_mode_early(s, m, ext, val) ==
    LET t0 == BATADV_GW_MODE_OFF
        t1 == IF val.string = BATADV_GW_MODE_OFF_NAME THEN BATADV_GW_MODE_OFF ELSE t0
        t2 == IF val.string = BATADV_GW_MODE_CLIENT_NAME THEN BATADV_GW_MODE_CLIENT ELSE t1
        gw_mode_tmp ==
            IF val.string = BATADV_GW_MODE_SERVER_NAME THEN BATADV_GW_MODE_SERVER ELSE t2
    IN SetOk([s EXCEPT !.priv[m].gw_mode = gw_mode_tmp],
             <<Call("batadv_gw_reselect", m),
               Ev("atomic_set", DevObj(m), "gw_mode"),
               Call("batadv_gw_check_client_stop", m),
               Call("batadv_gw_tvlv_container_update", m)>>)
batadv_option_set_gw_mode(s, m, ext, val) ==
    LET t0 == BATADV_GW_MODE_OFF
        t1 == IF val.string = BATADV_GW_MODE_OFF_NAME THEN BATADV_GW_MODE_OFF ELSE t0
        t2 == IF val.string = BATADV_GW_MODE_CLIENT_NAME THEN BATADV_GW_MODE_CLIENT ELSE t1
        gw_mode_tmp ==
            IF val.string = BATADV_GW_MODE_SERVER_NAME THEN BATADV_GW_MODE_SERVER ELSE t2
    IN SetOk([s EXCEPT !.priv[m].gw_mode = gw_mode_tmp],
             <<Call("batadv_gw_reselect", m), Call("batadv_gw_check_client_stop", m),
               Ev("atomic_set", DevObj(m), "gw_mode"),
               Call("batadv_gw_tvlv_container_update", m)>>)
batadv_option_validate_gw_mode(s, m, ext, val) ==
    IF val.string = BATADV_GW_MODE_OFF_NAME THEN 0
    ELSE IF val.string = BATADV_GW_MODE_CLIENT_NAME THEN 0
    ELSE IF val.string = BATADV_GW_MODE_SERVER_NAME THEN 0
    ELSE -EINVAL
batadv_option_get_gw_sel_class(s, m, ext) ==
    IF GwApiMissing(m) THEN GetErr(EOPNOTSUPP)
    ELSE GetOk(VU32(s.priv[m].gw_sel_class))
batadv_option_set_gw_sel_class(s, m, ext, val) ==
    SetOk([s EXCEPT !.priv[m].gw_sel_class = val.vu32],
          <<Ev("atomic_set", DevObj(m), "gw_sel_class"), Call("batadv_gw_reselect", m)>>)
batadv_option_validate_gw_sel_class(s, m, ext, val) ==
    IF GwApiMissing(m) THEN -EOPNOTSUPP
    ELSE IF ~algo_ops_gw[m].store_sel_class
            /\ (val.vu32 < 1 \/ val.vu32 > BATADV_TQ_MAX_VALUE)
         THEN -ERANGE
    ELSE 0
batadv_option_get_hop_penalty(s, m, ext) ==
    GetOk(VU32(s.priv[m].hop_penalty))
batadv_option_set_hop_penalty(s, m, ext, val) ==
    SetOk([s EXCEPT !.priv[m].hop_penalty = val.vu32], <<>>)
batadv_option_validate_hop_penalty(s, m, ext, val) ==
    IF val.vu32 > BATADV_TQ_MAX_VALUE THEN -ERANGE ELSE 0
batadv_option_get_log_level(s, m, ext) ==
    GetOk(VU32(s.priv[m].log_level))
batadv_option_set_log_level(s, m, ext, val) ==
    SetOk([s EXCEPT !.priv[m].log_level = val.vu32], <<>>)
batadv_option_validate_log_level(s, m, ext, val) ==
    IF val.vu32 > BATADV_DBG_ALL THEN -ERANGE ELSE 0
batadv_option_get_multicast_mode(s, m, ext) ==
    GetOk(VBool(NotNot(s.priv[m].multicast_mode)))
batadv_option_set_multicast_mode(s, m, ext, val) ==
    SetOk([s EXCEPT !.priv[m].multicast_mode = val.vbool], <<>>)
batadv_option_get_network_coding(s, m, ext) ==
    GetOk(VBool(NotNot(s.priv[m].network_coding)))
batadv_option_set_network_coding(s, m, ext, val) ==
    SetOk([s EXCEPT !.priv[m].network_coding = val.vbool], <<Call("batadv_nc_status_update", m)>>)
batadv_option_get_isolation_mark(s, m, ext) ==
    GetOk(VU32(s.priv[m].isolation_mark))
batadv_option_set_isolation_mark(s, m, ext, val) ==
    SetOk([s EXCEPT !.priv[m].isolation_mark = val.vu32], <<>>)
batadv_option_get_isolation_mask(s, m, ext) ==
    GetOk(VU32(s.priv[m].isolation_mark_mask))
batadv_option_set_isolation_mask(s, m, ext, val) ==
    SetOk([s EXCEPT !.priv[m].isolation_mark_mask = val.vu32], <<>>)
batadv_option_get_orig_interval(s, m, ext) ==
    GetOk(VU32(s.priv[m].orig_interval))
batadv_option_set_orig_interval(s, m, ext, val) ==
    SetOk([s EXCEPT !.priv[m].orig_interval = val.vu32], <<>>)
batadv_option_validate_orig_interval(s, m, ext, val) ==
    IF val.vu32 < 2 * BATADV_JITTER \/ val.vu32 > INT_MAX THEN -ERANGE ELSE 0

batadv_option_hardif_get_elp_interval(s, m, ext) ==
    GetOk(VU32(s.hardif[ext[2]].elp_interval))
batadv_option_hardif_set_elp_interval(s, m, ext, val) ==
    SetOk([s EXCEPT !.hardif[ext[2]].elp_interval = val.vu32], <<>>)
batadv_option_hardif_get_tp_override(s, m, ext) ==
    GetOk(VU32(s.hardif[ext[2]].throughput_override))
batadv_option_hardif_set_tp_override(s, m, ext, val) ==
    SetOk([s EXCEPT !.hardif[ext[2]].throughput_override = val.vu32], <<>>)

batadv_option_vlan_get_ap_isolation(s, m, ext) ==
    GetOk(VBool(NotNot(s.vlan[<<ext[2], ext[3]>>].ap_isolation)))
\* the same callback storing the value in every VLAN of the mesh
batadv_option_vlan_set_ap_isolation_all(s, m, ext, val) ==
    SetOk([s EXCEPT !.vlan = [v \in DOMAIN @ |->
                                 IF v[1] = ext[2] THEN [@[v] EXCEPT !.ap_isolation = val.vbool]
                                 ELSE @[v]]], <<>>)
batadv_option_vlan_set_ap_isolation(s, m, ext, val) ==
    SetOk([s EXCEPT !.vlan[<<ext[2], ext[3]>>].ap_isolation = val.vbool], <<>>)

----------------------------------------------------------------------------
(* The option tables.  An entry inside #ifdef is part of the array only    *)
(* when its CONFIG symbol is set; nlen is strlen(name).                    *)

Built(tbl) == SelectSeq(tbl, LAMBDA o : o.ifdef = "" \/ o.ifdef \in config)

softif_options == Built(<<
    [name |-> "aggregated_ogms", nlen |-> 15, type |-> "NLA_FLAG",
      get |-> "batadv_option_get_aggregated_ogms", set |-> "batadv_option_set_aggregated_ogms",
      validate |-> "", ifdef |-> ""],
    [name |-> "ap_isolation", nlen |-> 12, type |-> "NLA_FLAG",
      get |-> "batadv_option_get_ap_isolation", set |-> "batadv_option_set_ap_isolation",
      validate |-> "", ifdef |-> ""],
    [name |-> "bonding", nlen |-> 7, type |-> "NLA_FLAG",
      get |-> "batadv_option_get_bonding", set |-> "batadv_option_set_bonding",
      validate |-> "", ifdef |-> ""],
    [name |-> "bridge_loop_avoidance", nlen |-> 21, type |-> "NLA_FLAG",
      get |-> "batadv_option_get_bridge_loop_avoidance", set |-> "batadv_option_set_bridge_loop_avoidance",
      validate |-> "", ifdef |-> "CONFIG_BATMAN_ADV_BLA"],
    [name |-> "distributed_arp_table", nlen |-> 21, type |-> "NLA_FLAG",
      get |-> "batadv_option_get_distributed_arp_table", set |-> "batadv_option_set_distributed_arp_table",
      validate |-> "", ifdef |-> "CONFIG_BATMAN_ADV_DAT"],
    [name |-> "fragmentation", nlen |-> 13, type |-> "NLA_FLAG",
      get |-> "batadv_option_get_fragmentation", set |-> "batadv_option_set_fragmentation",
      validate |-> "", ifdef |-> ""],
    [name |-> "gw_bandwidth_down", nlen |-> 17, type |-> "NLA_U32",
      get |-> "batadv_option_get_gw_bandwidth_down", set |-> "batadv_option_set_gw_bandwidth_down",
      validate |-> "", ifdef |-> ""],
    [name |-> "gw_bandwidth_up", nlen |-> 15, type |-> "NLA_U32",
      get |-> "batadv_option_get_gw_bandwidth_up", set |-> "batadv_option_set_gw_bandwidth_up",
      validate |-> "", ifdef |-> ""],
    [name |-> "gw_mode", nlen |-> 7, type |-> "NLA_NUL_STRING",
      get |-> "batadv_option_get_gw_mode", set |-> "batadv_option_set_gw_mode",
      validate |-> "batadv_option_validate_gw_mode", ifdef |-> ""],
    [name |-> "gw_sel_class", nlen |-> 12, type |-> "NLA_U32",
      get |-> "batadv_option_get_gw_sel_class", set |-> "batadv_option_set_gw_sel_class",
      validate |-> "batadv_option_validate_gw_sel_class", ifdef |-> ""],
    [name |-> "hop_penalty", nlen |-> 11, type |-> "NLA_U32",
      get |-> "batadv_option_get_hop_penalty", set |-> "batadv_option_set_hop_penalty",
      validate |-> "batadv_option_validate_hop_penalty", ifdef |-> ""],
    [name |-> "log_level", nlen |-> 9, type |-> "NLA_U32",
      get |-> "batadv_option_get_log_level", set |-> "batadv_option_set_log_level",
      validate |-> "batadv_option_validate_log_level", ifdef |-> "CONFIG_BATMAN_ADV_DEBUG"],
    [name |-> "multicast_mode", nlen |-> 14, type |-> "NLA_FLAG",
      get |-> "batadv_option_get_multicast_mode", set |-> "batadv_option_set_multicast_mode",
      validate |-> "", ifdef |-> "CONFIG_BATMAN_ADV_MCAST"],
    [name |-> "network_coding", nlen |-> 14, type |-> "NLA_FLAG",
      get |-> "batadv_option_get_network_coding", set |-> "batadv_option_set_network_coding",
      validate |-> "", ifdef |-> "CONFIG_BATMAN_ADV_NC"],
    [name |-> "isolation_mark", nlen |-> 14, type |-> "NLA_U32",
      get |-> "batadv_option_get_isolation_mark", set |-> "batadv_option_set_isolation_mark",
      validate |-> "", ifdef |-> ""],
    [name |-> "isolation_mask", nlen |-> 14, type |-> "NLA_U32",
      get |-> "batadv_option_get_isolation_mask", set |-> "batadv_option_set_isolation_mask",
      validate |-> "", ifdef |-> ""],
    [name |-> "orig_interval", nlen |-> 13, type |-> "NLA_U32",
      get |-> "batadv_option_get_orig_interval", set |-> "batadv_option_set_orig_interval",
      validate |-> "batadv_option_validate_orig_interval", ifdef |-> ""] >>)

hardif_options == Built(<<
    [name |-> "elp_interval", nlen |-> 12, type |-> "NLA_U32",
      get |-> "batadv_option_hardif_get_elp_interval", set |-> "batadv_option_hardif_set_elp_interval",
      validate |-> "", ifdef |-> "CONFIG_BATMAN_ADV_BATMAN_V"],
    [name |-> "throughput_override", nlen |-> 19, type |-> "NLA_U32",
      get |-> "batadv_option_hardif_get_tp_override", set |-> "batadv_option_hardif_set_tp_override",
      validate |-> "", ifdef |-> "CONFIG_BATMAN_ADV_BATMAN_V"] >>)

vlan_options == <<
    [name |-> "ap_isolation", nlen |-> 12, type |-> "NLA_FLAG",
      get |-> "batadv_option_vlan_get_ap_isolation", set |-> "batadv_option_vlan_set_ap_isolation",
      validate |-> "", ifdef |-> ""] >>

\* option->get(bat_priv, ext_arg, &val)
OptionGet(option, s, m, ext) ==
    CASE option.get = "batadv_option_get_aggregated_ogms" ->
           batadv_option_get_aggregated_ogms(s, m, ext)
      [] option.get = "batadv_option_get_ap_isolation" ->
           batadv_option_get_ap_isolation(s, m, ext)
      [] option.get = "batadv_option_get_bonding" ->
           batadv_option_get_bonding(s, m, ext)
      [] option.get = "batadv_option_get_bridge_loop_avoidance" ->
           batadv_option_get_bridge_loop_avoidance(s, m, ext)
      [] option.get = "batadv_option_get_distributed_arp_table" ->
           batadv_option_get_distributed_arp_table(s, m, ext)
      [] option.get = "batadv_option_get_fragmentation" ->
           batadv_option_get_fragmentation(s, m, ext)
      [] option.get = "batadv_option_get_gw_bandwidth_down" ->
           batadv_option_get_gw_bandwidth_down(s, m, ext)
      [] option.get = "batadv_option_get_gw_bandwidth_up" ->
           batadv_option_get_gw_bandwidth_up(s, m, ext)
      [] option.get = "batadv_option_get_gw_mode" ->
           batadv_option_get_gw_mode(s, m, ext)
      [] option.get = "batadv_option_get_gw_sel_class" ->
           batadv_option_get_gw_sel_class(s, m, ext)
      [] option.get = "batadv_option_get_hop_penalty" ->
           batadv_option_get_hop_penalty(s, m, ext)
      [] option.get = "batadv_option_get_log_level" ->
           batadv_option_get_log_level(s, m, ext)
      [] option.get = "batadv_option_get_multicast_mode" ->
           batadv_option_get_multicast_mode(s, m, ext)
      [] option.get = "batadv_option_get_network_coding" ->
           batadv_option_get_network_coding(s, m, ext)
      [] option.get = "batadv_option_get_isolation_mark" ->
           batadv_option_get_isolation_mark(s, m, ext)
      [] option.get = "batadv_option_get_isolation_mask" ->
           batadv_option_get_isolation_mask(s, m, ext)
      [] option.get = "batadv_option_get_orig_interval" ->
           batadv_option_get_orig_interval(s, m, ext)
      [] option.get = "batadv_option_hardif_get_elp_interval" ->
           batadv_option_hardif_get_elp_interval(s, m, ext)
      [] option.get = "batadv_option_hardif_get_tp_override" ->
           batadv_option_hardif_get_tp_override(s, m, ext)
      [] option.get = "batadv_option_vlan_get_ap_isolation" ->
           batadv_option_vlan_get_ap_isolation(s, m, ext)

\* option->set(bat_priv, ext_arg, &val)
OptionSet(option, s, m, ext, val) ==
    CASE option.set = "batadv_option_set_aggregated_ogms" ->
           batadv_option_set_aggregated_ogms(s, m, ext, val)
      [] option.set = "batadv_option_set_ap_isolation" ->
           batadv_option_set_ap_isolation(s, m, ext, val)
      [] option.set = "batadv_option_set_bonding" ->
           batadv_option_set_bonding(s, m, ext, val)
      [] option.set = "batadv_option_set_bridge_loop_avoidance" ->
           batadv_option_set_bridge_loop_avoidance(s, m, ext, val)
      [] option.set = "batadv_option_set_distributed_arp_table" ->
           batadv_option_set_distributed_arp_table(s, m, ext, val)
      [] option.set = "batadv_option_set_fragmentation" ->
           batadv_option_set_fragmentation(s, m, ext, val)
      [] option.set = "batadv_option_set_gw_bandwidth_down" ->
           batadv_option_set_gw_bandwidth_down(s, m, ext, val)
      [] option.set = "batadv_option_set_gw_bandwidth_up" ->
           batadv_option_set_gw_bandwidth_up(s, m, ext, val)
      [] option.set = "batadv_option_set_gw_mode" ->
           batadv_option_set_gw_mode(s, m, ext, val)
      [] option.set = "batadv_option_set_gw_sel_class" ->
           batadv_option_set_gw_sel_class(s, m, ext, val)
      [] option.set = "batadv_option_set_hop_penalty" ->
           batadv_option_set_hop_penalty(s, m, ext, val)
      [] option.set = "batadv_option_set_log_level" ->
           batadv_option_set_log_level(s, m, ext, val)
      [] option.set = "batadv_option_set_multicast_mode" ->
           batadv_option_set_multicast_mode(s, m, ext, val)
      [] option.set = "batadv_option_set_network_coding" ->
           batadv_option_set_network_coding(s, m, ext, val)
      [] option.set = "batadv_option_set_isolation_mark" ->
           batadv_option_set_isolation_mark(s, m, ext, val)
      [] option.set = "batadv_option_set_isolation_mask" ->
           batadv_option_set_isolation_mask(s, m, ext, val)
      [] option.set = "batadv_option_set_orig_interval" ->
           batadv_option_set_orig_interval(s, m, ext, val)
      [] option.set = "batadv_option_hardif_set_elp_interval" ->
           batadv_option_hardif_set_elp_interval(s, m, ext, val)
      [] option.set = "batadv_option_hardif_set_tp_override" ->
           batadv_option_hardif_set_tp_override(s, m, ext, val)
      [] option.set = "batadv_option_vlan_set_ap_isolation" ->
           batadv_option_vlan_set_ap_isolation(s, m, ext, val)

\* option->validate(bat_priv, ext_arg, &val, extack)
OptionValidate(option, s, m, ext, val) ==
    CASE option.validate = "batadv_option_validate_gw_mode" ->
           batadv_option_validate_gw_mode(s, m, ext, val)
      [] option.validate = "batadv_option_validate_gw_sel_class" ->
           batadv_option_validate_gw_sel_class(s, m, ext, val)
      [] option.validate = "batadv_option_validate_hop_penalty" ->
           batadv_option_validate_hop_penalty(s, m, ext, val)
      [] option.validate = "batadv_option_validate_log_level" ->
           batadv_option_validate_log_level(s, m, ext, val)
      [] option.validate = "batadv_option_validate_orig_interval" ->
           batadv_option_validate_orig_interval(s, m, ext, val)

\* index of the first entry named name, 0 for NULL
RECURSIVE find_from(_, _, _)
find_from(name, options, i) ==
    IF i > Len(options) THEN 0
    ELSE IF options[i].name # name THEN find_from(name, options, i + 1)
    ELSE i
\* the same with the loop's last entry returned when no name matches
batadv_find_option_last(name, options) ==
    IF find_from(name, options, 1) = 0 THEN Len(options)
    ELSE find_from(name, options, 1)
\* the same with the loop starting at the second entry
batadv_find_option_from1(name, options) == find_from(name, options, 2)
batadv_find_option(name, options) == find_from(name, options, 1)

----------------------------------------------------------------------------
(* Decoding BATADV_ATTR_OPTION_VALUE.  A request r carries the set r.attrs  *)
(* of attributes present and the payload of each; r.value is the payload   *)
(* of the value attribute as a sequence of bytes.                          *)

nla_get_u8(p) == p[1]
nla_get_u16(p) == p[1] + 256 * p[2]
nla_get_u32(p) == p[1] + 256 * p[2] + 65536 * p[3] + 16777216 * p[4]
\* memchr(p, '\0', n) finds a NUL in the first n bytes
HasNul(p, n) == \E i \in 1 .. n : p[i] = 0
\* strlen() of the C string at p, reading at most Len(p) bytes
RECURSIVE StrLenFrom(_, _)
StrLenFrom(p, i) ==
    IF i > Len(p) \/ p[i] = 0 THEN i - 1 ELSE StrLenFrom(p, i + 1)
\* strlcpy(dst, p, size): the bytes before the NUL, at most size - 1 of them
strlcpy(p, size) == SubSeq(p, 1, Min(StrLenFrom(p, 1), size - 1))

\* the same decoder looking for the NUL in the whole payload
batadv_option_value_get_from_info_anynul(option, r) ==
    LET nla == "BATADV_ATTR_OPTION_VALUE" \in r.attrs
        attrlen == Len(r.value)
        minlen == Min(__BATADV_PARAM_MAX_STRING_VALUE, attrlen)
        Err == [ret |-> -EINVAL, val |-> NoVal]
    IN
    IF option.type # "NLA_FLAG" /\ ~nla THEN Err
    ELSE CASE option.type = "NLA_U8" ->
                IF attrlen < 1 THEN Err
                ELSE [ret |-> 0, val |-> [NoVal EXCEPT !.vu8 = nla_get_u8(r.value)]]
           [] option.type = "NLA_U16" ->
                IF attrlen < 2 THEN Err
                ELSE [ret |-> 0, val |-> [NoVal EXCEPT !.vu16 = nla_get_u16(r.value)]]
           [] option.type = "NLA_U32" ->
                IF attrlen < 4 THEN Err
                ELSE [ret |-> 0, val |-> VU32(nla_get_u32(r.value))]
           [] option.type = "NLA_NUL_STRING" ->
                IF minlen = 0 \/ ~HasNul(r.value, attrlen) THEN Err
                ELSE [ret |-> 0,
                      val |-> VStr(strlcpy(r.value, __BATADV_PARAM_MAX_STRING_VALUE))]
           [] option.type = "NLA_FLAG" ->
                [ret |-> 0, val |-> VBool(IF nla THEN 1 ELSE 0)]
           [] OTHER -> Err
\* the same decoder reading a u32 option as a u16
batadv_option_value_get_from_info_u16(option, r) ==
    LET nla == "BATADV_ATTR_OPTION_VALUE" \in r.attrs
        attrlen == Len(r.value)
        minlen == Min(__BATADV_PARAM_MAX_STRING_VALUE, attrlen)
        Err == [ret |-> -EINVAL, val |-> NoVal]
    IN
    IF option.type # "NLA_FLAG" /\ ~nla THEN Err
    ELSE CASE option.type = "NLA_U8" ->
                IF attrlen < 1 THEN Err
                ELSE [ret |-> 0, val |-> [NoVal EXCEPT !.vu8 = nla_get_u8(r.value)]]
           [] option.type = "NLA_U16" ->
                IF attrlen < 2 THEN Err
                ELSE [ret |-> 0, val |-> [NoVal EXCEPT !.vu16 = nla_get_u16(r.value)]]
           [] option.type = "NLA_U32" ->
                IF attrlen < 2 THEN Err
                ELSE [ret |-> 0, val |-> VU32(nla_get_u16(r.value))]
           [] option.type = "NLA_NUL_STRING" ->
                IF minlen = 0 \/ ~HasNul(r.value, minlen) THEN Err
                ELSE [ret |-> 0,
                      val |-> VStr(strlcpy(r.value, __BATADV_PARAM_MAX_STRING_VALUE))]
           [] option.type = "NLA_FLAG" ->
                [ret |-> 0, val |-> VBool(IF nla THEN 1 ELSE 0)]
           [] OTHER -> Err
batadv_option_value_get_from_info(option, r) ==
    LET nla == "BATADV_ATTR_OPTION_VALUE" \in r.attrs
        attrlen == Len(r.value)
        minlen == Min(__BATADV_PARAM_MAX_STRING_VALUE, attrlen)
        Err == [ret |-> -EINVAL, val |-> NoVal]
    IN
    IF option.type # "NLA_FLAG" /\ ~nla THEN Err
    ELSE CASE option.type = "NLA_U8" ->
                IF attrlen < 1 THEN Err
                ELSE [ret |-> 0, val |-> [NoVal EXCEPT !.vu8 = nla_get_u8(r.value)]]
           [] option.type = "NLA_U16" ->
                IF attrlen < 2 THEN Err
                ELSE [ret |-> 0, val |-> [NoVal EXCEPT !.vu16 = nla_get_u16(r.value)]]
           [] option.type = "NLA_U32" ->
                IF attrlen < 4 THEN Err
                ELSE [ret |-> 0, val |-> VU32(nla_get_u32(r.value))]
           [] option.type = "NLA_NUL_STRING" ->
                IF minlen = 0 \/ ~HasNul(r.value, minlen) THEN Err
                ELSE [ret |-> 0,
                      val |-> VStr(strlcpy(r.value, __BATADV_PARAM_MAX_STRING_VALUE))]
           [] option.type = "NLA_FLAG" ->
                [ret |-> 0, val |-> VBool(IF nla THEN 1 ELSE 0)]
           [] OTHER -> Err

----------------------------------------------------------------------------
(* Netlink messages.  A buffer msg is [cap, ents]: its capacity in bytes   *)
(* and the generic netlink messages put into it, each [cmd, flags, attrs,  *)
(* ended]; ended is set by genlmsg_end().                                  *)

NlaAttr(t, l, str, num, bytes) ==
    [type |-> t, len |-> l, str |-> str, num |-> num, bytes |-> bytes]
\* nla_total_size(): the attribute header and payload, padded to 4 bytes
nla_total_size(l) == ((NLA_HDRLEN + l + 3) \div 4) * 4
RECURSIVE AttrsSize(_)
AttrsSize(attrs) ==
    IF attrs = <<>> THEN 0
    ELSE nla_total_size(Head(attrs).len) + AttrsSize(Tail(attrs))
RECURSIVE EntsSize(_)
EntsSize(ents) ==
    IF ents = <<>> THEN 0
    ELSE NLMSG_HDRLEN + GENL_HDRLEN + AttrsSize(Head(ents).attrs) + EntsSize(Tail(ents))
\* msg->len
msg_len(msg) == EntsSize(msg.ents)
skb_tailroom(msg) == msg.cap - msg_len(msg)
nlmsg_new(size) == [cap |-> NLMSG_HDRLEN + size, ents |-> <<>>]
NoMsg == [cap |-> 0, ents |-> <<>>]

\* genlmsg_put(): [ok, msg]; fails when the headers do not fit
genlmsg_put(msg, flags, cmd) ==
    IF skb_tailroom(msg) < NLMSG_HDRLEN + GENL_HDRLEN THEN [ok |-> FALSE, msg |-> msg]
    ELSE [ok |-> TRUE,
          msg |-> [msg EXCEPT !.ents = Append(@,
                     [cmd |-> cmd, flags |-> flags, attrs |-> <<>>, ended |-> FALSE])]]
\* nla_put(): [ok, msg]; appends to the message opened last
nla_put(msg, attr) ==
    IF skb_tailroom(msg) < nla_total_size(attr.len) THEN [ok |-> FALSE, msg |-> msg]
    ELSE [ok |-> TRUE,
          msg |-> [msg EXCEPT !.ents[Len(msg.ents)].attrs = Append(@, attr)]]
\* nla_put_string(): the payload is the string and its terminator; a string
\* is given either by its text and length (option names) or by its bytes
nla_put_string(msg, t, str, slen, bytes) ==
    nla_put(msg, NlaAttr(t, slen + 1, str, 0, bytes))
\* the u8 written is the option's netlink type, kept by its name
nla_put_type(msg, t, type) == nla_put(msg, NlaAttr(t, 1, type, 0, <<>>))
nla_put_u8(msg, t, n) == nla_put(msg, NlaAttr(t, 1, "", n % 256, <<>>))
nla_put_u16(msg, t, n) == nla_put(msg, NlaAttr(t, 2, "", n % 65536, <<>>))
nla_put_u32(msg, t, n) == nla_put(msg, NlaAttr(t, 4, "", n, <<>>))
nla_put_flag(msg, t) == nla_put(msg, NlaAttr(t, 0, "", 0, <<>>))
genlmsg_end(msg) == [msg EXCEPT !.ents[Len(msg.ents)].ended = TRUE]
\* genlmsg_cancel(msg, hdr) trims the buffer back to the start of hdr
genlmsg_cancel(msg) == [msg EXCEPT !.ents = SubSeq(@, 1, Len(@) - 1)]

\* the same with the flag attribute written for false too
PutValue_flag_always(msg, option, val) ==
    CASE option.type = "NLA_U8" -> nla_put_u8(msg, "BATADV_ATTR_OPTION_VALUE", val.vu8)
      [] option.type = "NLA_U16" -> nla_put_u16(msg, "BATADV_ATTR_OPTION_VALUE", val.vu16)
      [] option.type = "NLA_U32" -> nla_put_u32(msg, "BATADV_ATTR_OPTION_VALUE", val.vu32)
      [] option.type = "NLA_NUL_STRING" ->
            nla_put_string(msg, "BATADV_ATTR_OPTION_VALUE", "", Len(val.string), val.string)
      [] option.type = "NLA_FLAG" ->
            nla_put_flag(msg, "BATADV_ATTR_OPTION_VALUE")
      [] OTHER -> [ok |-> TRUE, msg |-> msg]
\* the value attribute written for a value of the option's type
PutValue(msg, option, val) ==
    CASE option.type = "NLA_U8" -> nla_put_u8(msg, "BATADV_ATTR_OPTION_VALUE", val.vu8)
      [] option.type = "NLA_U16" -> nla_put_u16(msg, "BATADV_ATTR_OPTION_VALUE", val.vu16)
      [] option.type = "NLA_U32" -> nla_put_u32(msg, "BATADV_ATTR_OPTION_VALUE", val.vu32)
      [] option.type = "NLA_NUL_STRING" ->
            nla_put_string(msg, "BATADV_ATTR_OPTION_VALUE", "", Len(val.string), val.string)
      [] option.type = "NLA_FLAG" ->
            IF val.vbool # 0 THEN nla_put_flag(msg, "BATADV_ATTR_OPTION_VALUE")
            ELSE [ok |-> TRUE, msg |-> msg]
      [] OTHER -> [ok |-> TRUE, msg |-> msg]

\* the object a callback works on: ext_arg, or the mesh when ext_arg is NULL
Target(m, ext) == IF ext = NullObj THEN DevObj(m) ELSE ext

\* Let(v, F) is F of the value v: it names the result of one call for the
\* statements that follow it, and the call is evaluated once
Let(v, F(_)) == CHOOSE res \in {F(x) : x \in {v}} : TRUE

\* [ret, msg, hdr, ev]; hdr is "unset" while *hdr was never written,
\* "null" after a failed genlmsg_put() and "set" otherwise
batadv_get_option_fill_open(msg, s, m, option, ext, cmd, flags) ==
    LET R(ret, mm, hdr, g) ==
            [ret |-> ret, msg |-> mm, hdr |-> hdr,
             ev |-> <<Ev("get", Target(m, ext), option.name)>> \o g.ev]
    IN
    Let(OptionGet(option, s, m, ext), LAMBDA g :
      IF g.ret < 0 THEN R(g.ret, msg, "unset", g)
      ELSE Let(genlmsg_put(msg, flags, cmd), LAMBDA h :
        IF ~h.ok THEN R(-EMSGSIZE, msg, "null", g)
        ELSE Let(nla_put_string(h.msg, "BATADV_ATTR_OPTION_NAME", option.name,
                                option.nlen, <<>>), LAMBDA a1 :
          IF ~a1.ok THEN R(-EMSGSIZE, a1.msg, "set", g)
          ELSE Let(nla_put_type(a1.msg, "BATADV_ATTR_OPTION_TYPE", option.type), LAMBDA a2 :
            IF ~a2.ok THEN R(-EMSGSIZE, a2.msg, "set", g)
            ELSE Let(PutValue(a2.msg, option, g.val), LAMBDA a3 :
              IF ~a3.ok THEN R(-EMSGSIZE, a3.msg, "set", g)
              ELSE R(0, a3.msg, "set", g))))))

batadv_get_option_fill(msg, s, m, option, ext, cmd, flags) ==
    Let(batadv_get_option_fill_open(msg, s, m, option, ext, cmd, flags), LAMBDA o :
      IF o.ret < 0 THEN o
      ELSE [o EXCEPT !.msg = genlmsg_end(o.msg)])

----------------------------------------------------------------------------
(* The handlers.  Each takes the request r, the option storage s and env,  *)
(* the outcomes of the calls whose result the handler does not control     *)
(* (env.alloc: nlmsg_new() succeeds; env.reply: what genlmsg_reply()       *)
(* returns; env.mcast: what genlmsg_multicast_netns() returns, which the   *)
(* notifiers discard), and yields what it returns and does:                *)
(*   ret    the return value                                               *)
(*   trace  references taken/dropped and callbacks called, in order        *)
(*   s      the option storage afterwards                                  *)
(*   reply  the messages handed to genlmsg_reply()                         *)
(*   mc     the messages genlmsg_multicast_netns() broadcast               *)
(*   args0  cb->args[0] afterwards, msg the dump buffer afterwards         *)

ECONNREFUSED == 111
ESRCH == 3
NLM_F_MULTI == 2

H(ret, trace, s, reply, mc) ==
    [ret |-> ret, trace |-> trace, s |-> s, reply |-> reply, mc |-> mc,
     args0 |-> 0, msg |-> NoMsg]
D(ret, trace, s, args0, msg) ==
    [ret |-> ret, trace |-> trace, s |-> s, reply |-> <<>>, mc |-> <<>>,
     args0 |-> args0, msg |-> msg]
MsgEv(e) == Ev(e, NullObj, "")
\* vid | BATADV_VLAN_HAS_TAG
WithTag(vid) ==
    IF (vid \div BATADV_VLAN_HAS_TAG) % 2 = 1 THEN vid ELSE vid + BATADV_VLAN_HAS_TAG
\* vid & VLAN_VID_MASK
VidBits(vid) == vid % (VLAN_VID_MASK + 1)

\* the same body leaving the message allocated on its failure path
NotifyBody_nofree(s, m, option, ext, cmd, ids, env) ==
    LET Fail(o) == [ret |-> -EMSGSIZE,
                    ev |-> <<MsgEv("nlmsg_new")>> \o o.ev
                           \o <<Ev("genlmsg_cancel", NullObj, o.hdr)>>,
                    mc |-> <<>>]
    IN
    IF ~env.alloc THEN [ret |-> -ENOMEM, ev |-> <<MsgEv("nlmsg_new_failed")>>, mc |-> <<>>]
    ELSE
    Let(batadv_get_option_fill_open(nlmsg_new(NLMSG_DEFAULT_SIZE), s, m, option, ext, cmd, 0),
        LAMBDA o :
      IF o.ret < 0 THEN Fail(o)
      ELSE Let(nla_put_u32(o.msg, ids[1][1], ids[1][2]), LAMBDA a1 :
        IF ~a1.ok THEN Fail(o)
        ELSE Let(IF Len(ids) > 1 THEN nla_put_u32(a1.msg, ids[2][1], ids[2][2]) ELSE a1,
                 LAMBDA a2 :
          IF ~a2.ok THEN Fail(o)
          ELSE IF env.mcast < 0
          THEN [ret |-> 0,
                ev |-> <<MsgEv("nlmsg_new")>> \o o.ev
                       \o <<MsgEv("genlmsg_multicast_netns_failed")>>,
                mc |-> <<>>]
          ELSE [ret |-> 0,
                ev |-> <<MsgEv("nlmsg_new")>> \o o.ev
                       \o <<MsgEv("genlmsg_multicast_netns")>>,
                mc |-> <<genlmsg_end(a2.msg)>>])))

\* the body shared by the three notifiers: ids are the scope attributes
\* written after the option; [ret, ev, mc]
NotifyBody(s, m, option, ext, cmd, ids, env) ==
    LET Fail(o) == [ret |-> -EMSGSIZE,
                    ev |-> <<MsgEv("nlmsg_new")>> \o o.ev
                           \o <<Ev("genlmsg_cancel", NullObj, o.hdr), MsgEv("nlmsg_free")>>,
                    mc |-> <<>>]
    IN
    IF ~env.alloc THEN [ret |-> -ENOMEM, ev |-> <<MsgEv("nlmsg_new_failed")>>, mc |-> <<>>]
    ELSE
    Let(batadv_get_option_fill_open(nlmsg_new(NLMSG_DEFAULT_SIZE), s, m, option, ext, cmd, 0),
        LAMBDA o :
      IF o.ret < 0 THEN Fail(o)
      ELSE Let(nla_put_u32(o.msg, ids[1][1], ids[1][2]), LAMBDA a1 :
        IF ~a1.ok THEN Fail(o)
        ELSE Let(IF Len(ids) > 1 THEN nla_put_u32(a1.msg, ids[2][1], ids[2][2]) ELSE a1,
                 LAMBDA a2 :
          IF ~a2.ok THEN Fail(o)
          ELSE IF env.mcast < 0
          THEN [ret |-> 0,
                ev |-> <<MsgEv("nlmsg_new")>> \o o.ev
                       \o <<MsgEv("genlmsg_multicast_netns_failed")>>,
                mc |-> <<>>]
          ELSE [ret |-> 0,
                ev |-> <<MsgEv("nlmsg_new")>> \o o.ev
                       \o <<MsgEv("genlmsg_multicast_netns")>>,
                mc |-> <<genlmsg_end(a2.msg)>>])))

batadv_option_notify(s, m, option, env) ==
    NotifyBody(s, m, option, NullObj, "BATADV_CMD_SET_OPTION",
               << <<"BATADV_ATTR_MESH_IFINDEX", m>> >>, env)

batadv_get_option(r, s, env) ==
    LET
        soft_iface == dev_get_by_index(r.mesh_ifindex)
        m == soft_iface[2]
        acq == <<Hold(soft_iface)>>
        rel == <<Put(soft_iface)>>
    IN
    IF "BATADV_ATTR_MESH_IFINDEX" \notin r.attrs THEN H(-EINVAL, <<>>, s, <<>>, <<>>)
    ELSE IF "BATADV_ATTR_OPTION_NAME" \notin r.attrs THEN H(-EINVAL, <<>>, s, <<>>, <<>>)
    ELSE
    Let(batadv_find_option(r.name, softif_options), LAMBDA i :
      IF i = 0 THEN H(-EOPNOTSUPP, <<>>, s, <<>>, <<>>)
      ELSE
      IF soft_iface = NullObj THEN H(-ENODEV, <<>>, s, <<>>, <<>>)
      ELSE IF ~batadv_softif_is_valid(soft_iface)
           THEN H(-EINVAL, <<Hold(soft_iface), Put(soft_iface)>>, s, <<>>, <<>>)
      ELSE IF ~env.alloc
           THEN H(-ENOMEM, acq \o <<MsgEv("nlmsg_new_failed")>> \o rel, s, <<>>, <<>>)
      ELSE
      Let(batadv_get_option_fill(nlmsg_new(NLMSG_DEFAULT_SIZE), s, m, softif_options[i], NullObj,
                                 "BATADV_CMD_GET_OPTION", 0), LAMBDA f :
        IF f.ret < 0
        THEN H(f.ret, acq \o <<MsgEv("nlmsg_new")>> \o f.ev \o <<MsgEv("nlmsg_free")>> \o rel,
               s, <<>>, <<>>)
        ELSE H(env.reply,
               acq \o <<MsgEv("nlmsg_new")>> \o f.ev \o <<MsgEv("genlmsg_reply")>> \o rel,
               s, <<f.msg>>, <<>>)))

\* the same handler notifying before it calls the set callback
batadv_set_option_notify_first(r, s, env) ==
    LET
        soft_iface == dev_get_by_index(r.mesh_ifindex)
        m == soft_iface[2]
        acq == <<Hold(soft_iface)>>
        rel == <<Put(soft_iface)>>
    IN
    IF "BATADV_ATTR_MESH_IFINDEX" \notin r.attrs THEN H(-EINVAL, <<>>, s, <<>>, <<>>)
    ELSE IF "BATADV_ATTR_OPTION_NAME" \notin r.attrs THEN H(-EINVAL, <<>>, s, <<>>, <<>>)
    ELSE IF "BATADV_ATTR_OPTION_TYPE" \notin r.attrs THEN H(-EINVAL, <<>>, s, <<>>, <<>>)
    ELSE
    Let(batadv_find_option(r.name, softif_options), LAMBDA i :
      IF i = 0 THEN H(-EOPNOTSUPP, <<>>, s, <<>>, <<>>)
      ELSE
      Let(softif_options[i], LAMBDA option :
        IF r.type # option.type THEN H(-EINVAL, <<>>, s, <<>>, <<>>)
        ELSE
        Let(batadv_option_value_get_from_info(option, r), LAMBDA d :
          IF d.ret < 0 THEN H(d.ret, <<>>, s, <<>>, <<>>)
          ELSE
          IF soft_iface = NullObj THEN H(-ENODEV, <<>>, s, <<>>, <<>>)
          ELSE IF ~batadv_softif_is_valid(soft_iface)
               THEN H(-EINVAL, <<Hold(soft_iface), Put(soft_iface)>>, s, <<>>, <<>>)
          ELSE
          Let(OptionSet(option, s, m, NullObj, d.val), LAMBDA st :
            IF st.ret < 0
            THEN H(st.ret, acq \o <<Ev("set", DevObj(m), option.name)>> \o st.ev \o rel,
                   st.s, <<>>, <<>>)
            ELSE
            Let(batadv_option_notify(s, m, option, env), LAMBDA n :
              H(st.ret, acq \o n.ev \o <<Ev("set", DevObj(m), option.name)>> \o st.ev \o rel,
                st.s, <<>>, n.mc))))))
\* the same handler returning what the notifier returned
batadv_set_option_notify_ret(r, s, env) ==
    LET
        soft_iface == dev_get_by_index(r.mesh_ifindex)
        m == soft_iface[2]
        acq == <<Hold(soft_iface)>>
        rel == <<Put(soft_iface)>>
    IN
    IF "BATADV_ATTR_MESH_IFINDEX" \notin r.attrs THEN H(-EINVAL, <<>>, s, <<>>, <<>>)
    ELSE IF "BATADV_ATTR_OPTION_NAME" \notin r.attrs THEN H(-EINVAL, <<>>, s, <<>>, <<>>)
    ELSE IF "BATADV_ATTR_OPTION_TYPE" \notin r.attrs THEN H(-EINVAL, <<>>, s, <<>>, <<>>)
    ELSE
    Let(batadv_find_option(r.name, softif_options), LAMBDA i :
      IF i = 0 THEN H(-EOPNOTSUPP, <<>>, s, <<>>, <<>>)
      ELSE
      Let(softif_options[i], LAMBDA option :
        IF r.type # option.type THEN H(-EINVAL, <<>>, s, <<>>, <<>>)
        ELSE
        Let(batadv_option_value_get_from_info(option, r), LAMBDA d :
          IF d.ret < 0 THEN H(d.ret, <<>>, s, <<>>, <<>>)
          ELSE
          IF soft_iface = NullObj THEN H(-ENODEV, <<>>, s, <<>>, <<>>)
          ELSE IF ~batadv_softif_is_valid(soft_iface)
               THEN H(-EINVAL, <<Hold(soft_iface), Put(soft_iface)>>, s, <<>>, <<>>)
          ELSE
          Let(OptionSet(option, s, m, NullObj, d.val), LAMBDA st :
            IF st.ret < 0
            THEN H(st.ret, acq \o <<Ev("set", DevObj(m), option.name)>> \o st.ev \o rel,
                   st.s, <<>>, <<>>)
            ELSE
            Let(batadv_option_notify(st.s, m, option, env), LAMBDA n :
              H(n.ret, acq \o <<Ev("set", DevObj(m), option.name)>> \o st.ev \o n.ev \o rel,
                st.s, <<>>, n.mc))))))
\* the same handler resolving the mesh device before it decodes the value
batadv_set_option_devfirst(r, s, env) ==
    LET
        soft_iface == dev_get_by_index(r.mesh_ifindex)
        m == soft_iface[2]
        acq == <<Hold(soft_iface)>>
        rel == <<Put(soft_iface)>>
    IN
    IF "BATADV_ATTR_MESH_IFINDEX" \notin r.attrs THEN H(-EINVAL, <<>>, s, <<>>, <<>>)
    ELSE IF "BATADV_ATTR_OPTION_NAME" \notin r.attrs THEN H(-EINVAL, <<>>, s, <<>>, <<>>)
    ELSE IF "BATADV_ATTR_OPTION_TYPE" \notin r.attrs THEN H(-EINVAL, <<>>, s, <<>>, <<>>)
    ELSE
    Let(batadv_find_option(r.name, softif_options), LAMBDA i :
      IF i = 0 THEN H(-EOPNOTSUPP, <<>>, s, <<>>, <<>>)
      ELSE
      Let(softif_options[i], LAMBDA option :
        IF r.type # option.type THEN H(-EINVAL, <<>>, s, <<>>, <<>>)
        ELSE
        Let(batadv_option_value_get_from_info(option, r), LAMBDA d :
          IF soft_iface = NullObj THEN H(-ENODEV, <<>>, s, <<>>, <<>>)
          ELSE IF ~batadv_softif_is_valid(soft_iface)
               THEN H(-EINVAL, <<Hold(soft_iface), Put(soft_iface)>>, s, <<>>, <<>>)
          ELSE IF d.ret < 0
               THEN H(d.ret, <<Hold(soft_iface), Put(soft_iface)>>, s, <<>>, <<>>)
          ELSE
          Let(OptionSet(option, s, m, NullObj, d.val), LAMBDA st :
            IF st.ret < 0
            THEN H(st.ret, acq \o <<Ev("set", DevObj(m), option.name)>> \o st.ev \o rel,
                   st.s, <<>>, <<>>)
            ELSE
            Let(batadv_option_notify(st.s, m, option, env), LAMBDA n :
              H(st.ret, acq \o <<Ev("set", DevObj(m), option.name)>> \o st.ev \o n.ev \o rel,
                st.s, <<>>, n.mc))))))

batadv_set_option(r, s, env) ==
    LET
        soft_iface == dev_get_by_index(r.mesh_ifindex)
        m == soft_iface[2]
        acq == <<Hold(soft_iface)>>
        rel == <<Put(soft_iface)>>
    IN
    IF "BATADV_ATTR_MESH_IFINDEX" \notin r.attrs THEN H(-EINVAL, <<>>, s, <<>>, <<>>)
    ELSE IF "BATADV_ATTR_OPTION_NAME" \notin r.attrs THEN H(-EINVAL, <<>>, s, <<>>, <<>>)
    ELSE IF "BATADV_ATTR_OPTION_TYPE" \notin r.attrs THEN H(-EINVAL, <<>>, s, <<>>, <<>>)
    ELSE
    Let(batadv_find_option(r.name, softif_options), LAMBDA i :
      IF i = 0 THEN H(-EOPNOTSUPP, <<>>, s, <<>>, <<>>)
      ELSE
      Let(softif_options[i], LAMBDA option :
        IF r.type # option.type THEN H(-EINVAL, <<>>, s, <<>>, <<>>)
        ELSE
        Let(batadv_option_value_get_from_info(option, r), LAMBDA d :
          IF d.ret < 0 THEN H(d.ret, <<>>, s, <<>>, <<>>)
          ELSE
          IF soft_iface = NullObj THEN H(-ENODEV, <<>>, s, <<>>, <<>>)
          ELSE IF ~batadv_softif_is_valid(soft_iface)
               THEN H(-EINVAL, <<Hold(soft_iface), Put(soft_iface)>>, s, <<>>, <<>>)
          ELSE
          Let(OptionSet(option, s, m, NullObj, d.val), LAMBDA st :
            IF st.ret < 0
            THEN H(st.ret, acq \o <<Ev("set", DevObj(m), option.name)>> \o st.ev \o rel,
                   st.s, <<>>, <<>>)
            ELSE
            Let(batadv_option_notify(st.s, m, option, env), LAMBDA n :
              H(st.ret, acq \o <<Ev("set", DevObj(m), option.name)>> \o st.ev \o n.ev \o rel,
                st.s, <<>>, n.mc))))))

\* batadv_netlink_get_ifindex(): the u32 of the attribute, 0 when it is absent
batadv_netlink_get_ifindex(r, attr) ==
    IF attr \in r.attrs
    THEN (IF attr = "BATADV_ATTR_MESH_IFINDEX" THEN r.mesh_ifindex ELSE r.hard_ifindex)
    ELSE 0

\* the for loop of the dump handlers from index i (0-based): [i, msg, ev]
\* the same loop ending at every failure, -EOPNOTSUPP included
RECURSIVE DumpLoop_stop(_, _, _, _, _, _, _)
DumpLoop_stop(msg, s, m, options, ext, cmd, i) ==
    IF ~(i < Len(options)) THEN [i |-> i, msg |-> msg, ev |-> <<>>]
    ELSE
    Let(batadv_get_option_fill(msg, s, m, options[i + 1], ext, cmd, NLM_F_MULTI), LAMBDA f :
      IF f.ret < 0 THEN [i |-> i, msg |-> f.msg, ev |-> f.ev]
      ELSE Let(DumpLoop_stop(f.msg, s, m, options, ext, cmd, i + 1), LAMBDA rest :
             [rest EXCEPT !.ev = f.ev \o @]))
RECURSIVE DumpLoop(_, _, _, _, _, _, _)
DumpLoop(msg, s, m, options, ext, cmd, i) ==
    IF ~(i < Len(options)) THEN [i |-> i, msg |-> msg, ev |-> <<>>]
    ELSE
    Let(batadv_get_option_fill(msg, s, m, options[i + 1], ext, cmd, NLM_F_MULTI), LAMBDA f :
      IF f.ret # -EOPNOTSUPP /\ f.ret < 0 THEN [i |-> i, msg |-> f.msg, ev |-> f.ev]
      ELSE Let(DumpLoop(f.msg, s, m, options, ext, cmd, i + 1), LAMBDA rest :
             [rest EXCEPT !.ev = f.ev \o @]))

\* the same handler storing the index after the one the loop ended at
batadv_get_option_dump_next(r, s, start, msg) ==
    LET
        ifindex == batadv_netlink_get_ifindex(r, "BATADV_ATTR_MESH_IFINDEX")
        soft_iface == dev_get_by_index(ifindex)
        m == soft_iface[2]
        acq == <<Hold(soft_iface)>>
        rel == <<Put(soft_iface)>>
    IN
    IF ifindex = 0 THEN D(-EINVAL, <<>>, s, start, msg)
    ELSE IF soft_iface = NullObj THEN D(-ENODEV, <<>>, s, start, msg)
    ELSE IF ~batadv_softif_is_valid(soft_iface)
         THEN D(-EINVAL, <<Hold(soft_iface), Put(soft_iface)>>, s, start, msg)
    ELSE
    Let(DumpLoop(msg, s, m, softif_options, NullObj, "BATADV_CMD_GET_OPTION", start), LAMBDA l :
      D(msg_len(l.msg), acq \o l.ev \o rel, s, l.i + 1, l.msg))
\* the same handler leaving cb->args[0] as it found it
batadv_get_option_dump_rewind(r, s, start, msg) ==
    LET
        ifindex == batadv_netlink_get_ifindex(r, "BATADV_ATTR_MESH_IFINDEX")
        soft_iface == dev_get_by_index(ifindex)
        m == soft_iface[2]
        acq == <<Hold(soft_iface)>>
        rel == <<Put(soft_iface)>>
    IN
    IF ifindex = 0 THEN D(-EINVAL, <<>>, s, start, msg)
    ELSE IF soft_iface = NullObj THEN D(-ENODEV, <<>>, s, start, msg)
    ELSE IF ~batadv_softif_is_valid(soft_iface)
         THEN D(-EINVAL, <<Hold(soft_iface), Put(soft_iface)>>, s, start, msg)
    ELSE
    Let(DumpLoop(msg, s, m, softif_options, NullObj, "BATADV_CMD_GET_OPTION", start), LAMBDA l :
      D(msg_len(l.msg), acq \o l.ev \o rel, s, start, l.msg))
\* start is cb->args[0]; msg the buffer the transport passes in
batadv_get_option_dump(r, s, start, msg) ==
    LET
        ifindex == batadv_netlink_get_ifindex(r, "BATADV_ATTR_MESH_IFINDEX")
        soft_iface == dev_get_by_index(ifindex)
        m == soft_iface[2]
        acq == <<Hold(soft_iface)>>
        rel == <<Put(soft_iface)>>
    IN
    IF ifindex = 0 THEN D(-EINVAL, <<>>, s, start, msg)
    ELSE IF soft_iface = NullObj THEN D(-ENODEV, <<>>, s, start, msg)
    ELSE IF ~batadv_softif_is_valid(soft_iface)
         THEN D(-EINVAL, <<Hold(soft_iface), Put(soft_iface)>>, s, start, msg)
    ELSE
    Let(DumpLoop(msg, s, m, softif_options, NullObj, "BATADV_CMD_GET_OPTION", start), LAMBDA l :
      D(msg_len(l.msg), acq \o l.ev \o rel, s, l.i, l.msg))

batadv_option_hardif_notify(s, m, hard_iface, option, env) ==
    NotifyBody(s, m, option, hard_iface, "BATADV_CMD_SET_OPTION_HARDIF",
               << <<"BATADV_ATTR_MESH_IFINDEX", m>>,
                  <<"BATADV_ATTR_HARD_IFINDEX", hard_iface[2]>> >>, env)

\* the same handler without the check for BATADV_ATTR_HARD_IFINDEX
batadv_get_option_hardif_nocheck(r, s, env) ==
    LET
        soft_iface == dev_get_by_index(r.mesh_ifindex)
        m == soft_iface[2]
        hard_dev == dev_get_by_index(r.hard_ifindex)
        hard_iface == batadv_hardif_get_by_netdev(hard_dev)
        acq == <<Hold(soft_iface), Hold(hard_dev), Hold(hard_iface)>>
        rel == <<Put(hard_iface), Put(hard_dev), Put(soft_iface)>>
    IN
    IF "BATADV_ATTR_MESH_IFINDEX" \notin r.attrs THEN H(-EINVAL, <<>>, s, <<>>, <<>>)
    ELSE IF "BATADV_ATTR_OPTION_NAME" \notin r.attrs THEN H(-EINVAL, <<>>, s, <<>>, <<>>)
    ELSE
    Let(batadv_find_option(r.name, hardif_options), LAMBDA i :
      IF i = 0 THEN H(-EOPNOTSUPP, <<>>, s, <<>>, <<>>)
      ELSE
      IF soft_iface = NullObj THEN H(-ENODEV, <<>>, s, <<>>, <<>>)
      ELSE IF ~batadv_softif_is_valid(soft_iface)
           THEN H(-EINVAL, <<Hold(soft_iface), Put(soft_iface)>>, s, <<>>, <<>>)
      ELSE IF hard_dev = NullObj
           THEN H(-ENODEV, <<Hold(soft_iface), Put(soft_iface)>>, s, <<>>, <<>>)
      ELSE IF hard_iface = NullObj
           THEN H(-EINVAL, <<Hold(soft_iface), Hold(hard_dev), Put(hard_dev), Put(soft_iface)>>,
                  s, <<>>, <<>>)
      ELSE IF DevObj(hard_iface_soft_iface[hard_iface[2]]) # soft_iface
           THEN H(-EINVAL, acq \o rel, s, <<>>, <<>>)
      ELSE IF ~env.alloc
           THEN H(-ENOMEM, acq \o <<MsgEv("nlmsg_new_failed")>> \o rel, s, <<>>, <<>>)
      ELSE
      Let(batadv_get_option_fill(nlmsg_new(NLMSG_DEFAULT_SIZE), s, m, hardif_options[i], hard_iface,
                                 "BATADV_CMD_GET_OPTION_HARDIF", 0), LAMBDA f :
        IF f.ret < 0
        THEN H(f.ret, acq \o <<MsgEv("nlmsg_new")>> \o f.ev \o <<MsgEv("nlmsg_free")>> \o rel,
               s, <<>>, <<>>)
        ELSE H(env.reply,
               acq \o <<MsgEv("nlmsg_new")>> \o f.ev \o <<MsgEv("genlmsg_reply")>> \o rel,
               s, <<f.msg>>, <<>>)))
batadv_get_option_hardif(r, s, env) ==
    LET
        soft_iface == dev_get_by_index(r.mesh_ifindex)
        m == soft_iface[2]
        hard_dev == dev_get_by_index(r.hard_ifindex)
        hard_iface == batadv_hardif_get_by_netdev(hard_dev)
        acq == <<Hold(soft_iface), Hold(hard_dev), Hold(hard_iface)>>
        rel == <<Put(hard_iface), Put(hard_dev), Put(soft_iface)>>
    IN
    IF "BATADV_ATTR_MESH_IFINDEX" \notin r.attrs THEN H(-EINVAL, <<>>, s, <<>>, <<>>)
    ELSE IF "BATADV_ATTR_HARD_IFINDEX" \notin r.attrs THEN H(-EINVAL, <<>>, s, <<>>, <<>>)
    ELSE IF "BATADV_ATTR_OPTION_NAME" \notin r.attrs THEN H(-EINVAL, <<>>, s, <<>>, <<>>)
    ELSE
    Let(batadv_find_option(r.name, hardif_options), LAMBDA i :
      IF i = 0 THEN H(-EOPNOTSUPP, <<>>, s, <<>>, <<>>)
      ELSE
      IF soft_iface = NullObj THEN H(-ENODEV, <<>>, s, <<>>, <<>>)
      ELSE IF ~batadv_softif_is_valid(soft_iface)
           THEN H(-EINVAL, <<Hold(soft_iface), Put(soft_iface)>>, s, <<>>, <<>>)
      ELSE IF hard_dev = NullObj
           THEN H(-ENODEV, <<Hold(soft_iface), Put(soft_iface)>>, s, <<>>, <<>>)
      ELSE IF hard_iface = NullObj
           THEN H(-EINVAL, <<Hold(soft_iface), Hold(hard_dev), Put(hard_dev), Put(soft_iface)>>,
                  s, <<>>, <<>>)
      ELSE IF DevObj(hard_iface_soft_iface[hard_iface[2]]) # soft_iface
           THEN H(-EINVAL, acq \o rel, s, <<>>, <<>>)
      ELSE IF ~env.alloc
           THEN H(-ENOMEM, acq \o <<MsgEv("nlmsg_new_failed")>> \o rel, s, <<>>, <<>>)
      ELSE
      Let(batadv_get_option_fill(nlmsg_new(NLMSG_DEFAULT_SIZE), s, m, hardif_options[i], hard_iface,
                                 "BATADV_CMD_GET_OPTION_HARDIF", 0), LAMBDA f :
        IF f.ret < 0
        THEN H(f.ret, acq \o <<MsgEv("nlmsg_new")>> \o f.ev \o <<MsgEv("nlmsg_free")>> \o rel,
               s, <<>>, <<>>)
        ELSE H(env.reply,
               acq \o <<MsgEv("nlmsg_new")>> \o f.ev \o <<MsgEv("genlmsg_reply")>> \o rel,
               s, <<f.msg>>, <<>>)))

\* the same handler releasing the device before the hard interface
batadv_set_option_hardif_swapped(r, s, env) ==
    LET
        soft_iface == dev_get_by_index(r.mesh_ifindex)
        m == soft_iface[2]
        hard_dev == dev_get_by_index(r.hard_ifindex)
        hard_iface == batadv_hardif_get_by_netdev(hard_dev)
        acq == <<Hold(soft_iface), Hold(hard_dev), Hold(hard_iface)>>
        rel == <<Put(hard_dev), Put(hard_iface), Put(soft_iface)>>
    IN
    IF "BATADV_ATTR_MESH_IFINDEX" \notin r.attrs THEN H(-EINVAL, <<>>, s, <<>>, <<>>)
    ELSE IF "BATADV_ATTR_HARD_IFINDEX" \notin r.attrs THEN H(-EINVAL, <<>>, s, <<>>, <<>>)
    ELSE IF "BATADV_ATTR_OPTION_NAME" \notin r.attrs THEN H(-EINVAL, <<>>, s, <<>>, <<>>)
    ELSE IF "BATADV_ATTR_OPTION_TYPE" \notin r.attrs THEN H(-EINVAL, <<>>, s, <<>>, <<>>)
    ELSE
    Let(batadv_find_option(r.name, hardif_options), LAMBDA i :
      IF i = 0 THEN H(-EOPNOTSUPP, <<>>, s, <<>>, <<>>)
      ELSE
      Let(hardif_options[i], LAMBDA option :
        IF r.type # option.type THEN H(-EINVAL, <<>>, s, <<>>, <<>>)
        ELSE
        Let(batadv_option_value_get_from_info(option, r), LAMBDA d :
          IF d.ret < 0 THEN H(d.ret, <<>>, s, <<>>, <<>>)
          ELSE
          IF soft_iface = NullObj THEN H(-ENODEV, <<>>, s, <<>>, <<>>)
          ELSE IF ~batadv_softif_is_valid(soft_iface)
               THEN H(-EINVAL, <<Hold(soft_iface), Put(soft_iface)>>, s, <<>>, <<>>)
          ELSE IF hard_dev = NullObj
               THEN H(-ENODEV, <<Hold(soft_iface), Put(soft_iface)>>, s, <<>>, <<>>)
          ELSE IF hard_iface = NullObj
               THEN H(-EINVAL, <<Hold(soft_iface), Hold(hard_dev), Put(hard_dev), Put(soft_iface)>>,
                      s, <<>>, <<>>)
          ELSE IF DevObj(hard_iface_soft_iface[hard_iface[2]]) # soft_iface
               THEN H(-EINVAL, acq \o rel, s, <<>>, <<>>)
          ELSE
          Let(OptionSet(option, s, m, hard_iface, d.val), LAMBDA st :
            IF st.ret < 0
            THEN H(st.ret, acq \o <<Ev("set", hard_iface, option.name)>> \o st.ev \o rel,
                   st.s, <<>>, <<>>)
            ELSE
            Let(batadv_option_hardif_notify(st.s, m, hard_iface, option, env), LAMBDA n :
              H(st.ret, acq \o <<Ev("set", hard_iface, option.name)>> \o st.ev \o n.ev \o rel,
                st.s, <<>>, n.mc))))))

\* the same handler storing the value before it compares the owning mesh
batadv_set_option_hardif_late(r, s, env) ==
    LET
        soft_iface == dev_get_by_index(r.mesh_ifindex)
        m == soft_iface[2]
        hard_dev == dev_get_by_index(r.hard_ifindex)
        hard_iface == batadv_hardif_get_by_netdev(hard_dev)
        acq == <<Hold(soft_iface), Hold(hard_dev), Hold(hard_iface)>>
        rel == <<Put(hard_iface), Put(hard_dev), Put(soft_iface)>>
    IN
    IF "BATADV_ATTR_MESH_IFINDEX" \notin r.attrs THEN H(-EINVAL, <<>>, s, <<>>, <<>>)
    ELSE IF "BATADV_ATTR_HARD_IFINDEX" \notin r.attrs THEN H(-EINVAL, <<>>, s, <<>>, <<>>)
    ELSE IF "BATADV_ATTR_OPTION_NAME" \notin r.attrs THEN H(-EINVAL, <<>>, s, <<>>, <<>>)
    ELSE IF "BATADV_ATTR_OPTION_TYPE" \notin r.attrs THEN H(-EINVAL, <<>>, s, <<>>, <<>>)
    ELSE
    Let(batadv_find_option(r.name, hardif_options), LAMBDA i :
      IF i = 0 THEN H(-EOPNOTSUPP, <<>>, s, <<>>, <<>>)
      ELSE
      Let(hardif_options[i], LAMBDA option :
        IF r.type # option.type THEN H(-EINVAL, <<>>, s, <<>>, <<>>)
        ELSE
        Let(batadv_option_value_get_from_info(option, r), LAMBDA d :
          IF d.ret < 0 THEN H(d.ret, <<>>, s, <<>>, <<>>)
          ELSE
          IF soft_iface = NullObj THEN H(-ENODEV, <<>>, s, <<>>, <<>>)
          ELSE IF ~batadv_softif_is_valid(soft_iface)
               THEN H(-EINVAL, <<Hold(soft_iface), Put(soft_iface)>>, s, <<>>, <<>>)
          ELSE IF hard_dev = NullObj
               THEN H(-ENODEV, <<Hold(soft_iface), Put(soft_iface)>>, s, <<>>, <<>>)
          ELSE IF hard_iface = NullObj
               THEN H(-EINVAL, <<Hold(soft_iface), Hold(hard_dev), Put(hard_dev), Put(soft_iface)>>,
                      s, <<>>, <<>>)
          ELSE IF DevObj(hard_iface_soft_iface[hard_iface[2]]) # soft_iface
               THEN H(-EINVAL, acq \o rel, OptionSet(option, s, m, hard_iface, d.val).s,
                      <<>>, <<>>)
          ELSE
          Let(OptionSet(option, s, m, hard_iface, d.val), LAMBDA st :
            IF st.ret < 0
            THEN H(st.ret, acq \o <<Ev("set", hard_iface, option.name)>> \o st.ev \o rel,
                   st.s, <<>>, <<>>)
            ELSE
            Let(batadv_option_hardif_notify(st.s, m, hard_iface, option, env), LAMBDA n :
              H(st.ret, acq \o <<Ev("set", hard_iface, option.name)>> \o st.ev \o n.ev \o rel,
                st.s, <<>>, n.mc))))))

batadv_set_option_hardif(r, s, env) ==
    LET
        soft_iface == dev_get_by_index(r.mesh_ifindex)
        m == soft_iface[2]
        hard_dev == dev_get_by_index(r.hard_ifindex)
        hard_iface == batadv_hardif_get_by_netdev(hard_dev)
        acq == <<Hold(soft_iface), Hold(hard_dev), Hold(hard_iface)>>
        rel == <<Put(hard_iface), Put(hard_dev), Put(soft_iface)>>
    IN
    IF "BATADV_ATTR_MESH_IFINDEX" \notin r.attrs THEN H(-EINVAL, <<>>, s, <<>>, <<>>)
    ELSE IF "BATADV_ATTR_HARD_IFINDEX" \notin r.attrs THEN H(-EINVAL, <<>>, s, <<>>, <<>>)
    ELSE IF "BATADV_ATTR_OPTION_NAME" \notin r.attrs THEN H(-EINVAL, <<>>, s, <<>>, <<>>)
    ELSE IF "BATADV_ATTR_OPTION_TYPE" \notin r.attrs THEN H(-EINVAL, <<>>, s, <<>>, <<>>)
    ELSE
    Let(batadv_find_option(r.name, hardif_options), LAMBDA i :
      IF i = 0 THEN H(-EOPNOTSUPP, <<>>, s, <<>>, <<>>)
      ELSE
      Let(hardif_options[i], LAMBDA option :
        IF r.type # option.type THEN H(-EINVAL, <<>>, s, <<>>, <<>>)
        ELSE
        Let(batadv_option_value_get_from_info(option, r), LAMBDA d :
          IF d.ret < 0 THEN H(d.ret, <<>>, s, <<>>, <<>>)
          ELSE
          IF soft_iface = NullObj THEN H(-ENODEV, <<>>, s, <<>>, <<>>)
          ELSE IF ~batadv_softif_is_valid(soft_iface)
               THEN H(-EINVAL, <<Hold(soft_iface), Put(soft_iface)>>, s, <<>>, <<>>)
          ELSE IF hard_dev = NullObj
               THEN H(-ENODEV, <<Hold(soft_iface), Put(soft_iface)>>, s, <<>>, <<>>)
          ELSE IF hard_iface = NullObj
               THEN H(-EINVAL, <<Hold(soft_iface), Hold(hard_dev), Put(hard_dev), Put(soft_iface)>>,
                      s, <<>>, <<>>)
          ELSE IF DevObj(hard_iface_soft_iface[hard_iface[2]]) # soft_iface
               THEN H(-EINVAL, acq \o rel, s, <<>>, <<>>)
          ELSE
          Let(OptionSet(option, s, m, hard_iface, d.val), LAMBDA st :
            IF st.ret < 0
            THEN H(st.ret, acq \o <<Ev("set", hard_iface, option.name)>> \o st.ev \o rel,
                   st.s, <<>>, <<>>)
            ELSE
            Let(batadv_option_hardif_notify(st.s, m, hard_iface, option, env), LAMBDA n :
              H(st.ret, acq \o <<Ev("set", hard_iface, option.name)>> \o st.ev \o n.ev \o rel,
                st.s, <<>>, n.mc))))))

\* the same without the comparison of hard_iface->soft_iface
batadv_get_option_hardif_dump_anymesh(r, s, start, msg) ==
    LET
        ifindex == batadv_netlink_get_ifindex(r, "BATADV_ATTR_MESH_IFINDEX")
        hardif_index == batadv_netlink_get_ifindex(r, "BATADV_ATTR_HARD_IFINDEX")
        soft_iface == dev_get_by_index(ifindex)
        m == soft_iface[2]
        hard_dev == dev_get_by_index(hardif_index)
        hard_iface == batadv_hardif_get_by_netdev(hard_dev)
        acq == <<Hold(soft_iface), Hold(hard_dev), Hold(hard_iface)>>
        rel == <<Put(hard_iface), Put(hard_dev), Put(soft_iface)>>
    IN
    IF ifindex = 0 THEN D(-EINVAL, <<>>, s, start, msg)
    ELSE IF hardif_index = 0 THEN D(-EINVAL, <<>>, s, start, msg)
    ELSE IF soft_iface = NullObj THEN D(-ENODEV, <<>>, s, start, msg)
    ELSE IF ~batadv_softif_is_valid(soft_iface)
         THEN D(-EINVAL, <<Hold(soft_iface), Put(soft_iface)>>, s, start, msg)
    ELSE IF hard_dev = NullObj
         THEN D(-ENODEV, <<Hold(soft_iface), Put(soft_iface)>>, s, start, msg)
    ELSE IF hard_iface = NullObj
         THEN D(-EINVAL, <<Hold(soft_iface), Hold(hard_dev), Put(hard_dev), Put(soft_iface)>>,
                s, start, msg)
    ELSE
    Let(DumpLoop(msg, s, m, hardif_options, hard_iface, "BATADV_CMD_GET_OPTION_HARDIF", start), LAMBDA l :
      D(msg_len(l.msg), acq \o l.ev \o rel, s, l.i, l.msg))

batadv_get_option_hardif_dump(r, s, start, msg) ==
    LET
        ifindex == batadv_netlink_get_ifindex(r, "BATADV_ATTR_MESH_IFINDEX")
        hardif_index == batadv_netlink_get_ifindex(r, "BATADV_ATTR_HARD_IFINDEX")
        soft_iface == dev_get_by_index(ifindex)
        m == soft_iface[2]
        hard_dev == dev_get_by_index(hardif_index)
        hard_iface == batadv_hardif_get_by_netdev(hard_dev)
        acq == <<Hold(soft_iface), Hold(hard_dev), Hold(hard_iface)>>
        rel == <<Put(hard_iface), Put(hard_dev), Put(soft_iface)>>
    IN
    IF ifindex = 0 THEN D(-EINVAL, <<>>, s, start, msg)
    ELSE IF hardif_index = 0 THEN D(-EINVAL, <<>>, s, start, msg)
    ELSE IF soft_iface = NullObj THEN D(-ENODEV, <<>>, s, start, msg)
    ELSE IF ~batadv_softif_is_valid(soft_iface)
         THEN D(-EINVAL, <<Hold(soft_iface), Put(soft_iface)>>, s, start, msg)
    ELSE IF hard_dev = NullObj
         THEN D(-ENODEV, <<Hold(soft_iface), Put(soft_iface)>>, s, start, msg)
    ELSE IF hard_iface = NullObj
         THEN D(-EINVAL, <<Hold(soft_iface), Hold(hard_dev), Put(hard_dev), Put(soft_iface)>>,
                s, start, msg)
    ELSE IF DevObj(hard_iface_soft_iface[hard_iface[2]]) # soft_iface
         THEN D(-EINVAL, acq \o rel, s, start, msg)
    ELSE
    Let(DumpLoop(msg, s, m, hardif_options, hard_iface, "BATADV_CMD_GET_OPTION_HARDIF", start), LAMBDA l :
      D(msg_len(l.msg), acq \o l.ev \o rel, s, l.i, l.msg))

batadv_option_vlan_notify(s, m, vlan, option, env) ==
    NotifyBody(s, m, option, vlan, "BATADV_CMD_SET_OPTION_VLAN",
               << <<"BATADV_ATTR_MESH_IFINDEX", m>>,
                  <<"BATADV_ATTR_VLANID", VidBits(vlan[3])>> >>, env)

\* the same handler without batadv_softif_vlan_put()
batadv_get_option_vlan_noput(r, s, env) ==
    LET
        soft_iface == dev_get_by_index(r.mesh_ifindex)
        m == soft_iface[2]
        vlan == batadv_softif_vlan_get(m, WithTag(r.vlanid))
        acq == <<Hold(soft_iface), Hold(vlan)>>
        rel == <<Put(soft_iface)>>
    IN
    IF "BATADV_ATTR_MESH_IFINDEX" \notin r.attrs THEN H(-EINVAL, <<>>, s, <<>>, <<>>)
    ELSE IF "BATADV_ATTR_VLANID" \notin r.attrs THEN H(-EINVAL, <<>>, s, <<>>, <<>>)
    ELSE IF "BATADV_ATTR_OPTION_NAME" \notin r.attrs THEN H(-EINVAL, <<>>, s, <<>>, <<>>)
    ELSE
    Let(batadv_find_option(r.name, vlan_options), LAMBDA i :
      IF i = 0 THEN H(-EOPNOTSUPP, <<>>, s, <<>>, <<>>)
      ELSE
      IF soft_iface = NullObj THEN H(-ENODEV, <<>>, s, <<>>, <<>>)
      ELSE IF ~batadv_softif_is_valid(soft_iface)
           THEN H(-EINVAL, <<Hold(soft_iface), Put(soft_iface)>>, s, <<>>, <<>>)
      ELSE IF vlan = NullObj
           THEN H(-ENOENT, <<Hold(soft_iface), Put(soft_iface)>>, s, <<>>, <<>>)
      ELSE IF ~env.alloc
           THEN H(-ENOMEM, acq \o <<MsgEv("nlmsg_new_failed")>> \o rel, s, <<>>, <<>>)
      ELSE
      Let(batadv_get_option_fill(nlmsg_new(NLMSG_DEFAULT_SIZE), s, m, vlan_options[i], vlan,
                                 "BATADV_CMD_GET_OPTION_VLAN", 0), LAMBDA f :
        IF f.ret < 0
        THEN H(f.ret, acq \o <<MsgEv("nlmsg_new")>> \o f.ev \o <<MsgEv("nlmsg_free")>> \o rel,
               s, <<>>, <<>>)
        ELSE H(env.reply,
               acq \o <<MsgEv("nlmsg_new")>> \o f.ev \o <<MsgEv("genlmsg_reply")>> \o rel,
               s, <<f.msg>>, <<>>)))
batadv_get_option_vlan(r, s, env) ==
    LET
        soft_iface == dev_get_by_index(r.mesh_ifindex)
        m == soft_iface[2]
        vlan == batadv_softif_vlan_get(m, WithTag(r.vlanid))
        acq == <<Hold(soft_iface), Hold(vlan)>>
        rel == <<Put(vlan), Put(soft_iface)>>
    IN
    IF "BATADV_ATTR_MESH_IFINDEX" \notin r.attrs THEN H(-EINVAL, <<>>, s, <<>>, <<>>)
    ELSE IF "BATADV_ATTR_VLANID" \notin r.attrs THEN H(-EINVAL, <<>>, s, <<>>, <<>>)
    ELSE IF "BATADV_ATTR_OPTION_NAME" \notin r.attrs THEN H(-EINVAL, <<>>, s, <<>>, <<>>)
    ELSE
    Let(batadv_find_option(r.name, vlan_options), LAMBDA i :
      IF i = 0 THEN H(-EOPNOTSUPP, <<>>, s, <<>>, <<>>)
      ELSE
      IF soft_iface = NullObj THEN H(-ENODEV, <<>>, s, <<>>, <<>>)
      ELSE IF ~batadv_softif_is_valid(soft_iface)
           THEN H(-EINVAL, <<Hold(soft_iface), Put(soft_iface)>>, s, <<>>, <<>>)
      ELSE IF vlan = NullObj
           THEN H(-ENOENT, <<Hold(soft_iface), Put(soft_iface)>>, s, <<>>, <<>>)
      ELSE IF ~env.alloc
           THEN H(-ENOMEM, acq \o <<MsgEv("nlmsg_new_failed")>> \o rel, s, <<>>, <<>>)
      ELSE
      Let(batadv_get_option_fill(nlmsg_new(NLMSG_DEFAULT_SIZE), s, m, vlan_options[i], vlan,
                                 "BATADV_CMD_GET_OPTION_VLAN", 0), LAMBDA f :
        IF f.ret < 0
        THEN H(f.ret, acq \o <<MsgEv("nlmsg_new")>> \o f.ev \o <<MsgEv("nlmsg_free")>> \o rel,
               s, <<>>, <<>>)
        ELSE H(env.reply,
               acq \o <<MsgEv("nlmsg_new")>> \o f.ev \o <<MsgEv("genlmsg_reply")>> \o rel,
               s, <<f.msg>>, <<>>)))

\* the same without the comparison of option_type
batadv_set_option_vlan_anytype(r, s, env) ==
    LET
        soft_iface == dev_get_by_index(r.mesh_ifindex)
        m == soft_iface[2]
        vlan == batadv_softif_vlan_get(m, WithTag(r.vlanid))
        acq == <<Hold(soft_iface), Hold(vlan)>>
        rel == <<Put(vlan), Put(soft_iface)>>
    IN
    IF "BATADV_ATTR_MESH_IFINDEX" \notin r.attrs THEN H(-EINVAL, <<>>, s, <<>>, <<>>)
    ELSE IF "BATADV_ATTR_VLANID" \notin r.attrs THEN H(-EINVAL, <<>>, s, <<>>, <<>>)
    ELSE IF "BATADV_ATTR_OPTION_NAME" \notin r.attrs THEN H(-EINVAL, <<>>, s, <<>>, <<>>)
    ELSE IF "BATADV_ATTR_OPTION_TYPE" \notin r.attrs THEN H(-EINVAL, <<>>, s, <<>>, <<>>)
    ELSE
    Let(batadv_find_option(r.name, vlan_options), LAMBDA i :
      IF i = 0 THEN H(-EOPNOTSUPP, <<>>, s, <<>>, <<>>)
      ELSE
      Let(vlan_options[i], LAMBDA option :
        Let(batadv_option_value_get_from_info(option, r), LAMBDA d :
          IF d.ret < 0 THEN H(d.ret, <<>>, s, <<>>, <<>>)
          ELSE
          IF soft_iface = NullObj THEN H(-ENODEV, <<>>, s, <<>>, <<>>)
          ELSE IF ~batadv_softif_is_valid(soft_iface)
               THEN H(-EINVAL, <<Hold(soft_iface), Put(soft_iface)>>, s, <<>>, <<>>)
          ELSE IF vlan = NullObj
               THEN H(-ENOENT, <<Hold(soft_iface), Put(soft_iface)>>, s, <<>>, <<>>)
          ELSE
          Let(OptionSet(option, s, m, vlan, d.val), LAMBDA st :
            IF st.ret < 0
            THEN H(st.ret, acq \o <<Ev("set", vlan, option.name)>> \o st.ev \o rel,
                   st.s, <<>>, <<>>)
            ELSE
            Let(batadv_option_vlan_notify(st.s, m, vlan, option, env), LAMBDA n :
              H(st.ret, acq \o <<Ev("set", vlan, option.name)>> \o st.ev \o n.ev \o rel,
                st.s, <<>>, n.mc))))))

\* the same handler dropping the VLAN reference before it notifies
batadv_set_option_vlan_earlyput(r, s, env) ==
    LET
        soft_iface == dev_get_by_index(r.mesh_ifindex)
        m == soft_iface[2]
        vlan == batadv_softif_vlan_get(m, WithTag(r.vlanid))
        acq == <<Hold(soft_iface), Hold(vlan)>>
        rel == <<Put(vlan), Put(soft_iface)>>
    IN
    IF "BATADV_ATTR_MESH_IFINDEX" \notin r.attrs THEN H(-EINVAL, <<>>, s, <<>>, <<>>)
    ELSE IF "BATADV_ATTR_VLANID" \notin r.attrs THEN H(-EINVAL, <<>>, s, <<>>, <<>>)
    ELSE IF "BATADV_ATTR_OPTION_NAME" \notin r.attrs THEN H(-EINVAL, <<>>, s, <<>>, <<>>)
    ELSE IF "BATADV_ATTR_OPTION_TYPE" \notin r.attrs THEN H(-EINVAL, <<>>, s, <<>>, <<>>)
    ELSE
    Let(batadv_find_option(r.name, vlan_options), LAMBDA i :
      IF i = 0 THEN H(-EOPNOTSUPP, <<>>, s, <<>>, <<>>)
      ELSE
      Let(vlan_options[i], LAMBDA option :
        IF r.type # option.type THEN H(-EINVAL, <<>>, s, <<>>, <<>>)
        ELSE
        Let(batadv_option_value_get_from_info(option, r), LAMBDA d :
          IF d.ret < 0 THEN H(d.ret, <<>>, s, <<>>, <<>>)
          ELSE
          IF soft_iface = NullObj THEN H(-ENODEV, <<>>, s, <<>>, <<>>)
          ELSE IF ~batadv_softif_is_valid(soft_iface)
               THEN H(-EINVAL, <<Hold(soft_iface), Put(soft_iface)>>, s, <<>>, <<>>)
          ELSE IF vlan = NullObj
               THEN H(-ENOENT, <<Hold(soft_iface), Put(soft_iface)>>, s, <<>>, <<>>)
          ELSE
          Let(OptionSet(option, s, m, vlan, d.val), LAMBDA st :
            IF st.ret < 0
            THEN H(st.ret, acq \o <<Ev("set", vlan, option.name)>> \o st.ev \o rel,
                   st.s, <<>>, <<>>)
            ELSE
            Let(batadv_option_vlan_notify(st.s, m, vlan, option, env), LAMBDA n :
              H(st.ret, acq \o <<Ev("set", vlan, option.name)>> \o st.ev
                        \o <<Put(vlan)>> \o n.ev \o <<Put(soft_iface)>>,
                st.s, <<>>, n.mc))))))

batadv_set_option_vlan(r, s, env) ==
    LET
        soft_iface == dev_get_by_index(r.mesh_ifindex)
        m == soft_iface[2]
        vlan == batadv_softif_vlan_get(m, WithTag(r.vlanid))
        acq == <<Hold(soft_iface), Hold(vlan)>>
        rel == <<Put(vlan), Put(soft_iface)>>
    IN
    IF "BATADV_ATTR_MESH_IFINDEX" \notin r.attrs THEN H(-EINVAL, <<>>, s, <<>>, <<>>)
    ELSE IF "BATADV_ATTR_VLANID" \notin r.attrs THEN H(-EINVAL, <<>>, s, <<>>, <<>>)
    ELSE IF "BATADV_ATTR_OPTION_NAME" \notin r.attrs THEN H(-EINVAL, <<>>, s, <<>>, <<>>)
    ELSE IF "BATADV_ATTR_OPTION_TYPE" \notin r.attrs THEN H(-EINVAL, <<>>, s, <<>>, <<>>)
    ELSE
    Let(batadv_find_option(r.name, vlan_options), LAMBDA i :
      IF i = 0 THEN H(-EOPNOTSUPP, <<>>, s, <<>>, <<>>)
      ELSE
      Let(vlan_options[i], LAMBDA option :
        IF r.type # option.type THEN H(-EINVAL, <<>>, s, <<>>, <<>>)
        ELSE
        Let(batadv_option_value_get_from_info(option, r), LAMBDA d :
          IF d.ret < 0 THEN H(d.ret, <<>>, s, <<>>, <<>>)
          ELSE
          IF soft_iface = NullObj THEN H(-ENODEV, <<>>, s, <<>>, <<>>)
          ELSE IF ~batadv_softif_is_valid(soft_iface)
               THEN H(-EINVAL, <<Hold(soft_iface), Put(soft_iface)>>, s, <<>>, <<>>)
          ELSE IF vlan = NullObj
               THEN H(-ENOENT, <<Hold(soft_iface), Put(soft_iface)>>, s, <<>>, <<>>)
          ELSE
          Let(OptionSet(option, s, m, vlan, d.val), LAMBDA st :
            IF st.ret < 0
            THEN H(st.ret, acq \o <<Ev("set", vlan, option.name)>> \o st.ev \o rel,
                   st.s, <<>>, <<>>)
            ELSE
            Let(batadv_option_vlan_notify(st.s, m, vlan, option, env), LAMBDA n :
              H(st.ret, acq \o <<Ev("set", vlan, option.name)>> \o st.ev \o n.ev \o rel,
                st.s, <<>>, n.mc))))))

\* the same handler looking the vid up without BATADV_VLAN_HAS_TAG
batadv_get_option_vlan_dump_untagged(r, s, start, msg) ==
    LET
        ifindex == batadv_netlink_get_ifindex(r, "BATADV_ATTR_MESH_IFINDEX")
        soft_iface == dev_get_by_index(ifindex)
        m == soft_iface[2]
        vlan == batadv_softif_vlan_get(m, r.vlanid)
        acq == <<Hold(soft_iface), Hold(vlan)>>
        rel == <<Put(vlan), Put(soft_iface)>>
    IN
    IF "BATADV_ATTR_VLANID" \notin r.attrs THEN D(-EINVAL, <<>>, s, start, msg)
    ELSE IF ifindex = 0 THEN D(-EINVAL, <<>>, s, start, msg)
    ELSE IF soft_iface = NullObj THEN D(-ENODEV, <<>>, s, start, msg)
    ELSE IF ~batadv_softif_is_valid(soft_iface)
         THEN D(-EINVAL, <<Hold(soft_iface), Put(soft_iface)>>, s, start, msg)
    ELSE IF vlan = NullObj
         THEN D(-ENOENT, <<Hold(soft_iface), Put(soft_iface)>>, s, start, msg)
    ELSE
    Let(DumpLoop(msg, s, m, vlan_options, vlan, "BATADV_CMD_GET_OPTION_VLAN", start), LAMBDA l :
      D(msg_len(l.msg), acq \o l.ev \o rel, s, l.i, l.msg))

batadv_get_option_vlan_dump(r, s, start, msg) ==
    LET
        ifindex == batadv_netlink_get_ifindex(r, "BATADV_ATTR_MESH_IFINDEX")
        soft_iface == dev_get_by_index(ifindex)
        m == soft_iface[2]
        vlan == batadv_softif_vlan_get(m, WithTag(r.vlanid))
        acq == <<Hold(soft_iface), Hold(vlan)>>
        rel == <<Put(vlan), Put(soft_iface)>>
    IN
    IF "BATADV_ATTR_VLANID" \notin r.attrs THEN D(-EINVAL, <<>>, s, start, msg)
    ELSE IF ifindex = 0 THEN D(-EINVAL, <<>>, s, start, msg)
    ELSE IF soft_iface = NullObj THEN D(-ENODEV, <<>>, s, start, msg)
    ELSE IF ~batadv_softif_is_valid(soft_iface)
         THEN D(-EINVAL, <<Hold(soft_iface), Put(soft_iface)>>, s, start, msg)
    ELSE IF vlan = NullObj
         THEN D(-ENOENT, <<Hold(soft_iface), Put(soft_iface)>>, s, start, msg)
    ELSE
    Let(DumpLoop(msg, s, m, vlan_options, vlan, "BATADV_CMD_GET_OPTION_VLAN", start), LAMBDA l :
      D(msg_len(l.msg), acq \o l.ev \o rel, s, l.i, l.msg))

----------------------------------------------------------------------------
(* Requests and the state machine *)

AllFeatures == {"CONFIG_BATMAN_ADV_BLA", "CONFIG_BATMAN_ADV_DAT",
                "CONFIG_BATMAN_ADV_DEBUG", "CONFIG_BATMAN_ADV_MCAST",
                "CONFIG_BATMAN_ADV_NC", "CONFIG_BATMAN_ADV_BATMAN_V"}
BuildConfigs == {AllFeatures, {}}

\* the values requests are drawn from; no device has ifindex 0 or 9
MeshIfInputs == {0, 1, 2, 3, 4, 9}
HardIfInputs == {0, 4, 5, 6, 9}
VidInputs == {0, 10}
GetNames == [mesh |-> {o.name : o \in {softif_options[i] : i \in DOMAIN softif_options}}
                      \cup {"log_level", "elp_interval", "bogus", "bridge_loop_avoidance",
                            "distributed_arp_table", "multicast_mode", "network_coding",
                            "Hop_penalty", "hop_penalt"},
             hardif |-> {"elp_interval", "throughput_override", "hop_penalty"},
             vlan |-> {"ap_isolation", "hop_penalty"}]
SetNames == [mesh |-> {"ap_isolation", "gw_mode", "gw_sel_class", "hop_penalty",
                       "log_level", "bogus"},
             hardif |-> {"elp_interval", "hop_penalty"},
             vlan |-> {"ap_isolation", "hop_penalty"}]
TypeInputs == [mesh |-> {"NLA_FLAG", "NLA_U32", "NLA_NUL_STRING", "NLA_U8"},
               hardif |-> {"NLA_U32", "NLA_FLAG"},
               vlan |-> {"NLA_FLAG", "NLA_U32"}]
\* the payloads a request of each declared type is sent with: u32 255 and
\* 256, a payload of two bytes and one of five (65543 and a fifth byte);
\* "client\0", "bogus\0", "off" without
\* its terminator, an empty payload, 31 bytes and their terminator, and 40
\* bytes whose only NUL is byte 36; a flag has no payload
ValueInputs == [NLA_U32 |-> { <<255, 0, 0, 0>>, <<0, 1, 0, 0>>, <<1, 0>>,
                            <<7, 0, 1, 0, 9>> },
                NLA_NUL_STRING |-> { BATADV_GW_MODE_CLIENT_NAME \o <<0>>,
                                     <<98, 111, 103, 117, 115, 0>>,
                                     BATADV_GW_MODE_OFF_NAME,
                                     <<>>,
                                     [i \in 1 .. 31 |-> 97] \o <<0>>,
                                     [i \in 1 .. 40 |-> IF i = 36 THEN 0 ELSE 97] },
                NLA_FLAG |-> { <<>> },
                NLA_U8 |-> { <<1>> }]
Envs == { [alloc |-> TRUE, reply |-> 0, mcast |-> 0],
          [alloc |-> FALSE, reply |-> 0, mcast |-> 0],
          [alloc |-> TRUE, reply |-> -ECONNREFUSED, mcast |-> 0],
          [alloc |-> TRUE, reply |-> 0, mcast |-> -ESRCH] }
Tailrooms == {MsgCap, NLMSG_HDRLEN + NLMSG_DEFAULT_SIZE}

NoReq == [attrs |-> {}, mesh_ifindex |-> 0, hard_ifindex |-> 0, vlanid |-> 0,
          name |-> "", type |-> "", value |-> <<>>]
\* the optional attributes of a request: every subset of a may be present
Opt(r, a, field, vals) ==
    {r} \cup {[r EXCEPT ![field] = v, !.attrs = @ \cup {a}] : v \in vals}
Lift(rs, a, field, vals) == UNION {Opt(r, a, field, vals) : r \in rs}

IdReqs(scope) ==
    LET base == Lift({NoReq}, "BATADV_ATTR_MESH_IFINDEX", "mesh_ifindex", MeshIfInputs)
    IN CASE scope = "mesh" -> base
         [] scope = "hardif" ->
              Lift(base, "BATADV_ATTR_HARD_IFINDEX", "hard_ifindex", HardIfInputs)
         [] scope = "vlan" -> Lift(base, "BATADV_ATTR_VLANID", "vlanid", VidInputs)
GetReqs(scope) ==
    Lift(IdReqs(scope), "BATADV_ATTR_OPTION_NAME", "name", GetNames[scope])
SetReqs(scope) ==
    LET named == Lift(IdReqs(scope), "BATADV_ATTR_OPTION_NAME", "name", SetNames[scope])
        untyped == Lift(named, "BATADV_ATTR_OPTION_VALUE", "value", { <<1, 0>> })
        Typed(ty) == {[r EXCEPT !.type = ty, !.attrs = @ \cup {"BATADV_ATTR_OPTION_TYPE"}]
                        : r \in named}
    IN untyped \cup
       UNION {Lift(Typed(ty), "BATADV_ATTR_OPTION_VALUE", "value", ValueInputs[ty])
                : ty \in TypeInputs[scope]}

InitPriv ==
    [aggregated_ogms |-> 1, bonding |-> 0, bridge_loop_avoidance |-> 1,
     distributed_arp_table |-> 1, fragmentation |-> 1, gw_bandwidth_down |-> 100,
     gw_bandwidth_up |-> 20, gw_mode |-> BATADV_GW_MODE_OFF, gw_sel_class |-> 20,
     hop_penalty |-> 30, log_level |-> 0, multicast_mode |-> 1, network_coding |-> 0,
     isolation_mark |-> 0, isolation_mark_mask |-> 0, orig_interval |-> 1000]
InitObjs ==
    [priv |-> [m \in Meshes |-> InitPriv],
     vlan |-> [v \in VlanObjs |-> [ap_isolation |-> 0]],
     hardif |-> [h \in HardIfs |-> [elp_interval |-> 500, throughput_override |-> 0]]]

NoCb == [active |-> FALSE, scope |-> "", r |-> NoReq, cap |-> 0, args0 |-> 0,
         out |-> <<>>, calls |-> 0]
NoLast == [op |-> "", scope |-> "", r |-> NoReq, ret |-> 0, trace |-> <<>>,
           s0 |-> InitObjs, ref0 |-> [o \in AllObjs |-> 1], reply |-> <<>>, mc |-> <<>>,
           start |-> 0, args0 |-> 0, msg |-> NoMsg]

\* a set request that has not entered its handler
Procs == 1 .. NProcs
NoProc == [pc |-> "start", r |-> NoReq, env |-> [alloc |-> TRUE, reply |-> 0, mcast |-> 0],
           stored |-> NoVal, ret |-> 0, built |-> <<>>, mc |-> <<>>, seq |-> 0,
           reply |-> <<>>]

\* dev_hold()/kref_get() and dev_put()/kref_put() of the trace, in order
RECURSIVE ApplyTrace(_, _)
ApplyTrace(rc, trace) ==
    IF trace = <<>> THEN rc
    ELSE LET e == Head(trace) IN
         ApplyTrace(IF e.ev = "hold" THEN [rc EXCEPT ![e.obj] = @ + 1]
                    ELSE IF e.ev = "put" THEN [rc EXCEPT ![e.obj] = @ - 1]
                    ELSE rc,
                    Tail(trace))

Init ==
    /\ config \in BuildConfigs
    /\ objs = InitObjs
    /\ refcnt = [o \in AllObjs |-> 1]
    /\ pc = "idle"
    /\ last = NoLast
    /\ cb = NoCb
    /\ nsets = 0
    /\ procs = [p \in Procs |-> NoProc]

Record(op, scope, r, h, start) ==
    [op |-> op, scope |-> scope, r |-> r, ret |-> h.ret, trace |-> h.trace,
     s0 |-> objs, ref0 |-> refcnt, reply |-> h.reply, mc |-> h.mc,
     start |-> start, args0 |-> h.args0, msg |-> h.msg]

\* a get or set handler runs to completion on request r
Handle(op, scope, r, h) ==
    /\ objs' = h.s
    /\ refcnt' = ApplyTrace(refcnt, h.trace)
    /\ last' = Record(op, scope, r, h, 0)
    /\ pc' = "done"
    /\ nsets' = nsets + Cardinality({i \in DOMAIN h.trace : h.trace[i].ev = "set"})
    /\ UNCHANGED <<config, cb, procs>>

GetOption ==
    /\ pc = "idle"
    /\ \E r \in GetReqs("mesh"), env \in Envs :
          Handle("get", "mesh", r, batadv_get_option(r, objs, env))
SetOption ==
    /\ pc = "idle" /\ nsets < MaxSets
    /\ \E r \in SetReqs("mesh"), env \in Envs :
          Handle("set", "mesh", r, batadv_set_option(r, objs, env))
GetOptionHardif ==
    /\ pc = "idle"
    /\ \E r \in GetReqs("hardif"), env \in Envs :
          Handle("get", "hardif", r, batadv_get_option_hardif(r, objs, env))
SetOptionHardif ==
    /\ pc = "idle" /\ nsets < MaxSets
    /\ \E r \in SetReqs("hardif"), env \in Envs :
          Handle("set", "hardif", r, batadv_set_option_hardif(r, objs, env))
GetOptionVlan ==
    /\ pc = "idle"
    /\ \E r \in GetReqs("vlan"), env \in Envs :
          Handle("get", "vlan", r, batadv_get_option_vlan(r, objs, env))
SetOptionVlan ==
    /\ pc = "idle" /\ nsets < MaxSets
    /\ \E r \in SetReqs("vlan"), env \in Envs :
          Handle("set", "vlan", r, batadv_set_option_vlan(r, objs, env))

\* one call of a dump handler by the netlink dump machinery: the first call
\* of a dump request starts with cb->args[0] = 0, later calls continue with
\* the stored value and a fresh buffer; the dump goes on while the handler
\* returns a positive length
DumpCall(scope, r, cap, start, out, calls, h) ==
    /\ objs' = h.s
    /\ refcnt' = ApplyTrace(refcnt, h.trace)
    /\ last' = Record("dump", scope, r, h, start)
    /\ cb' = [active |-> h.ret > 0, scope |-> scope, r |-> r, cap |-> cap,
              args0 |-> h.args0, out |-> out \o h.msg.ents, calls |-> calls + 1]
    /\ pc' = IF h.ret > 0 THEN "dumping" ELSE "done"
    /\ UNCHANGED <<config, nsets, procs>>
DumpHandler(scope, r, start, msg) ==
    CASE scope = "mesh" -> batadv_get_option_dump(r, objs, start, msg)
      [] scope = "hardif" -> batadv_get_option_hardif_dump(r, objs, start, msg)
      [] scope = "vlan" -> batadv_get_option_vlan_dump(r, objs, start, msg)
Dump(scope) ==
    \/ /\ pc = "idle"
       /\ \E r \in IdReqs(scope), cap \in Tailrooms :
             DumpCall(scope, r, cap, 0, <<>>, 0,
                      DumpHandler(scope, r, 0, [cap |-> cap, ents |-> <<>>]))
    \/ /\ pc = "dumping" /\ cb.scope = scope
       /\ DumpCall(scope, cb.r, cb.cap, cb.args0, cb.out, cb.calls,
                   DumpHandler(scope, cb.r, cb.args0, [cap |-> cb.cap, ents |-> <<>>]))
GetOptionDump ==
    /\ pc \in {"idle", "dumping"}
    /\ Dump("mesh")
GetOptionHardifDump ==
    /\ pc \in {"idle", "dumping"}
    /\ Dump("hardif")
GetOptionVlanDump ==
    /\ pc \in {"idle", "dumping"}
    /\ Dump("vlan")

\* the result of the request has been delivered to the caller
Ack ==
    /\ pc = "done"
    /\ pc' = "idle" /\ last' = NoLast /\ cb' = NoCb
    /\ UNCHANGED <<config, objs, refcnt, nsets, procs>>

Next ==
    \/ GetOption \/ SetOption \/ GetOptionDump
    \/ GetOptionHardif \/ SetOptionHardif \/ GetOptionHardifDump
    \/ GetOptionVlan \/ SetOptionVlan \/ GetOptionVlanDump
    \/ Ack

Spec == Init /\ [][Next]_vars

\* the netlink dump machinery calls the handler of a dump that has started
\* again, for as long as the handler returns a positive length
DumpContinues ==
    /\ pc = "dumping"
    /\ GetOptionDump \/ GetOptionHardifDump \/ GetOptionVlanDump
\* the dump requests alone, each followed to its end
DumpNext ==
    \/ GetOptionDump \/ GetOptionHardifDump \/ GetOptionVlanDump
    \/ Ack
SpecLive == Init /\ [][DumpNext]_vars /\ WF_vars(DumpContinues)

----------------------------------------------------------------------------
(* Requests running at the same time.  The handlers take no lock, and     *)
(* between the steps of one batadv_set_option() call the steps of another  *)
(* handler may run.  The steps are: the checks, the resolution and         *)
(* option->set(); the notification, which reads the option again through   *)
(* option->get(); the release of the device and the return.  The callbacks *)
(* use atomic_set() and atomic_read() on their field, except those of      *)
(* isolation_mark and isolation_mask, which assign and read a plain u32:   *)
(* with a reader at the same time that store is a data race, and the       *)
(* build may write the word in two halves, in either order.  A get reads   *)
(* its field once, so batadv_get_option() is one step.                     *)

\* complete and valid mesh set requests on three options of mesh 1
ConcReqs ==
    LET Req(n, ty, v) ==
            [NoReq EXCEPT !.attrs = {"BATADV_ATTR_MESH_IFINDEX", "BATADV_ATTR_OPTION_NAME",
                                     "BATADV_ATTR_OPTION_TYPE", "BATADV_ATTR_OPTION_VALUE"},
                          !.mesh_ifindex = 1, !.name = n, !.type = ty, !.value = v]
    IN {Req("hop_penalty", "NLA_U32", <<255, 0, 0, 0>>)}
       \cup {Req("gw_mode", "NLA_NUL_STRING", v) :
                v \in { BATADV_GW_MODE_CLIENT_NAME \o <<0>>,
                        BATADV_GW_MODE_SERVER_NAME \o <<0>> }}
       \cup {Req("isolation_mark", "NLA_U32", <<1, 0, 1, 0>>)}
\* the get request for the option and mesh of each of them
ConcGetReqs ==
    {[r EXCEPT !.attrs = {"BATADV_ATTR_MESH_IFINDEX", "BATADV_ATTR_OPTION_NAME"},
               !.type = "", !.value = <<>>] : r \in ConcReqs}
\* the descriptors whose set callback stores with a plain assignment
PlainStores == {"batadv_option_set_isolation_mark", "batadv_option_set_isolation_mask"}
\* the words memory can hold between the two halves of a store of new over old
TornWords(old, new) ==
    { (old \div 65536) * 65536 + (new % 65536),
      (new \div 65536) * 65536 + (old % 65536) }
\* a set handler sends no reply: the outcomes of genlmsg_reply() do not matter
ConcEnvs == {env \in Envs : env.reply = 0}
ConcOption(p) == softif_options[batadv_find_option(procs[p].r.name, softif_options)]

\* the handler up to and including option->set(); a request that fails a
\* check or the resolution returns at once
SetOptionStart(p) ==
    /\ procs[p].pc = "start"
    /\ \E r \in ConcReqs, env \in ConcEnvs :
          LET h == batadv_set_option(r, objs, env)
              m == r.mesh_ifindex
              reached == \E k \in DOMAIN h.trace : h.trace[k].ev = "set"
              option == softif_options[batadv_find_option(r.name, softif_options)]
          IN IF ~reached
             THEN /\ refcnt' = ApplyTrace(refcnt, h.trace)
                  /\ objs' = objs
                  /\ procs' = [procs EXCEPT ![p] = [NoProc EXCEPT !.pc = "returned", !.r = r,
                                                               !.env = env, !.ret = h.ret]]
             ELSE /\ refcnt' = ApplyTrace(refcnt, <<Hold(DevObj(m))>>)
                  /\ objs' = h.s
                  /\ procs' = [procs EXCEPT ![p] =
                        [pc |-> IF h.ret < 0 THEN "notified" ELSE "stored",
                         r |-> r, env |-> env,
                         stored |-> OptionGet(option, h.s, m, NullObj).val,
                         ret |-> h.ret, built |-> <<>>, mc |-> <<>>, seq |-> 0,
                         reply |-> <<>>]]
    /\ UNCHANGED <<config, pc, last, cb, nsets>>
\* the same step for a plain store the build splits: the handler has written
\* one half of the word
SetOptionTear(p) ==
    /\ procs[p].pc = "start"
    /\ \E r \in ConcReqs, env \in ConcEnvs :
          LET m == r.mesh_ifindex
              option == softif_options[batadv_find_option(r.name, softif_options)]
              old == OptionGet(option, objs, m, NullObj).val.vu32
              new == batadv_option_value_get_from_info(option, r).val
          IN /\ option.set \in PlainStores
             /\ \E w \in TornWords(old, new.vu32) :
                   objs' = OptionSet(option, objs, m, NullObj, VU32(w)).s
             /\ refcnt' = ApplyTrace(refcnt, <<Hold(DevObj(m))>>)
             /\ procs' = [procs EXCEPT ![p] =
                   [pc |-> "storing", r |-> r, env |-> env, stored |-> new,
                    ret |-> 0, built |-> <<>>, mc |-> <<>>, seq |-> 0,
                    reply |-> <<>>]]
    /\ UNCHANGED <<config, pc, last, cb, nsets>>
\* the other half of the word
SetOptionStore(p) ==
    /\ procs[p].pc = "storing"
    /\ objs' = OptionSet(ConcOption(p), objs, procs[p].r.mesh_ifindex, NullObj,
                         procs[p].stored).s
    /\ procs' = [procs EXCEPT ![p].pc = "stored"]
    /\ UNCHANGED <<config, refcnt, pc, last, cb, nsets>>
\* batadv_option_notify(bat_priv, option) up to its genlmsg_multicast_netns():
\* the message is built from the value option->get() reads now; a message
\* that is not allocated, not built or not accepted by the transport is
\* freed, and the result is discarded
SetOptionNotify(p) ==
    /\ procs[p].pc = "stored"
    /\ LET n == batadv_option_notify(objs, procs[p].r.mesh_ifindex, ConcOption(p),
                                     procs[p].env)
       IN procs' = [procs EXCEPT ![p].pc = IF n.mc = <<>> THEN "notified" ELSE "built",
                                 ![p].built = n.mc]
    /\ UNCHANGED <<config, objs, refcnt, pc, last, cb, nsets>>
\* genlmsg_multicast_netns() of the message built: the listeners receive the
\* messages in the order of these calls
SetOptionMulticast(p) ==
    /\ procs[p].pc = "built"
    /\ LET sent == {procs[q].seq : q \in Procs}
       IN procs' = [procs EXCEPT ![p].pc = "notified", ![p].mc = procs[p].built,
                                 ![p].seq = 1 + CHOOSE n \in sent : \A k \in sent : k <= n]
    /\ UNCHANGED <<config, objs, refcnt, pc, last, cb, nsets>>
\* err_put_softif: dev_put(soft_iface); return ret
SetOptionReturn(p) ==
    /\ procs[p].pc = "notified"
    /\ refcnt' = ApplyTrace(refcnt, <<Put(DevObj(procs[p].r.mesh_ifindex))>>)
    /\ procs' = [procs EXCEPT ![p].pc = "returned"]
    /\ UNCHANGED <<config, objs, pc, last, cb, nsets>>

\* batadv_get_option(), with nlmsg_new() and genlmsg_reply() succeeding
GetOptionRun(p) ==
    /\ procs[p].pc = "start"
    /\ \E r \in ConcGetReqs :
          LET h == batadv_get_option(r, objs, NoProc.env)
          IN /\ refcnt' = ApplyTrace(refcnt, h.trace)
             /\ procs' = [procs EXCEPT ![p] = [NoProc EXCEPT !.pc = "returned", !.r = r,
                                                          !.ret = h.ret, !.reply = h.reply]]
    /\ UNCHANGED <<config, objs, pc, last, cb, nsets>>

ConcNext ==
    \E p \in Procs :
        \/ SetOptionStart(p) \/ SetOptionTear(p) \/ SetOptionStore(p)
        \/ SetOptionNotify(p) \/ SetOptionMulticast(p) \/ SetOptionReturn(p)
        \/ GetOptionRun(p)

SpecConc == Init /\ [][ConcNext]_vars

TypeOK ==
    /\ pc \in {"idle", "done", "dumping"}
    /\ nsets \in 0 .. MaxSets
    /\ \A o \in AllObjs : refcnt[o] >= 1

----------------------------------------------------------------------------
(* Vocabulary of the properties: what the last handler call was asked and  *)
(* what it did.                                                            *)

Tbl(scope) ==
    CASE scope = "mesh" -> softif_options
      [] scope = "hardif" -> hardif_options
      [] scope = "vlan" -> vlan_options
      [] OTHER -> <<>>
Has(a) == a \in last.r.attrs
\* the identification attributes the scope requires are present
IdAttrs ==
    /\ Has("BATADV_ATTR_MESH_IFINDEX")
    /\ last.scope = "hardif" => Has("BATADV_ATTR_HARD_IFINDEX")
    /\ last.scope = "vlan" => Has("BATADV_ATTR_VLANID")
\* the descriptor the request names: its index in the table, 0 when none
LastIdx ==
    LET tbl == Tbl(last.scope)
        hits == {i \in DOMAIN tbl : tbl[i].name = last.r.name}
    IN IF hits = {} THEN 0 ELSE CHOOSE i \in hits : \A j \in hits : i <= j
LastOpt == Tbl(last.scope)[LastIdx]
Named == Has("BATADV_ATTR_OPTION_NAME") /\ LastIdx # 0
LastVal == batadv_option_value_get_from_info(LastOpt, last.r)
\* the scope object the request addresses (NullObj when it does not resolve)
LastExt ==
    CASE last.scope = "hardif" -> batadv_hardif_get_by_netdev(dev_get_by_index(last.r.hard_ifindex))
      [] last.scope = "vlan" -> batadv_softif_vlan_get(last.r.mesh_ifindex, WithTag(last.r.vlanid))
      [] OTHER -> NullObj
\* the request addresses existing objects that belong together
Resolves ==
    /\ last.r.mesh_ifindex \in Meshes
    /\ last.scope = "hardif" =>
          /\ last.r.hard_ifindex \in HardIfs
          /\ hard_iface_soft_iface[last.r.hard_ifindex] = last.r.mesh_ifindex
    /\ last.scope = "vlan" => LastExt # NullObj
\* a set request that passes every check made before the set callback
SetReaches ==
    /\ last.op = "set" /\ IdAttrs /\ Named /\ Has("BATADV_ATTR_OPTION_TYPE")
    /\ last.r.type = LastOpt.type
    /\ LastVal.ret = 0
    /\ Resolves
EvAt(e) == {i \in DOMAIN last.trace : last.trace[i].ev = e}
Callbacks == EvAt("get") \cup EvAt("set") \cup EvAt("validate")
CountEv(e, o, n) ==
    Cardinality({i \in 1 .. n : last.trace[i].ev = e /\ last.trace[i].obj = o})
\* the names of the complete messages of a buffer, in order
EntName(e) == IF e.attrs = <<>> THEN "" ELSE e.attrs[1].str
RECURSIVE EntNames(_)
EntNames(ents) ==
    IF ents = <<>> THEN <<>> ELSE <<EntName(Head(ents))>> \o EntNames(Tail(ents))
Complete(ents) == \A i \in DOMAIN ents : ents[i].ended

----------------------------------------------------------------------------
(* C1: in each of the nine handlers and on every exit path, every          *)
(* reference the handler acquired (mesh device, hard device, hard          *)
(* interface, VLAN) is released exactly once before it returns: each       *)
(* object's reference count after the request equals its count before.     *)
C1_ReferencesReleased ==
    last.op # "" =>
        /\ refcnt = last.ref0
        /\ \A i \in EvAt("hold") \cup EvAt("put") : last.trace[i].obj \in AllObjs
        /\ \A o \in AllObjs :
              /\ CountEv("hold", o, Len(last.trace)) = CountEv("put", o, Len(last.trace))
              /\ \A i \in EvAt("put") :
                    last.trace[i].obj = o =>
                        CountEv("hold", o, i - 1) = CountEv("put", o, i - 1) + 1
\* a hard-interface set that fails after all three references were taken
C1_Witness ==
    /\ last.op = "set" /\ last.scope = "hardif" /\ last.ret < 0
    /\ Cardinality(EvAt("hold")) = 3 /\ Cardinality(EvAt("put")) = 3

(* C2: a hard-interface get, set or dump that resolves a hard interface    *)
(* attached to another mesh than the one named by mesh_if_index fails      *)
(* -EINVAL, calls no get or set callback, and drops the three references   *)
(* it took (mesh device, hard device, hard interface).                     *)
OtherMesh ==
    /\ last.scope = "hardif" /\ last.op \in {"get", "set", "dump"} /\ IdAttrs
    /\ last.op \in {"get", "set"} => Named
    /\ last.op = "set" =>
          /\ Has("BATADV_ATTR_OPTION_TYPE") /\ last.r.type = LastOpt.type
          /\ LastVal.ret = 0
    /\ last.r.mesh_ifindex \in Meshes /\ last.r.hard_ifindex \in HardIfs
    /\ hard_iface_soft_iface[last.r.hard_ifindex] # last.r.mesh_ifindex
C2_OtherMeshRejected ==
    OtherMesh =>
        /\ last.ret = -EINVAL
        /\ Callbacks = {}
        /\ objs = last.s0
        /\ \A o \in {DevObj(last.r.mesh_ifindex), DevObj(last.r.hard_ifindex),
                     HardIfObj(last.r.hard_ifindex)} :
              /\ CountEv("hold", o, Len(last.trace)) = 1
              /\ CountEv("put", o, Len(last.trace)) = 1
        /\ Cardinality(EvAt("hold")) = 3 /\ Cardinality(EvAt("put")) = 3
        /\ refcnt = last.ref0
C2_Witness == OtherMesh /\ last.op = "set" /\ last.ret = -EINVAL
C2_WitnessDump == OtherMesh /\ last.op = "dump" /\ last.ret = -EINVAL

(* C3: in every set handler, when the descriptor found has a validate      *)
(* function, validate is called on the decoded value before set; when      *)
(* validate fails its error is returned unchanged and set is not called.   *)
C3_ValidateBeforeSet ==
    (SetReaches /\ LastOpt.validate # "") =>
        LET v == OptionValidate(LastOpt, last.s0, last.r.mesh_ifindex, LastExt, LastVal.val)
        IN /\ EvAt("validate") # {}
           /\ \A i \in EvAt("set") : \E j \in EvAt("validate") : j < i
           /\ v < 0 => (last.ret = v /\ EvAt("set") = {})

(* C4: a mesh set of the u32 option hop_penalty accepts 255, rejects 256   *)
(* with -ERANGE or -EINVAL, and after the rejected set the stored          *)
(* hop_penalty is still the one stored before.                             *)
C4_HopPenaltyRange ==
    (SetReaches /\ last.scope = "mesh" /\ last.r.name = "hop_penalty") =>
        LET m == last.r.mesh_ifindex IN
        /\ LastVal.val.vu32 = 255 =>
              (last.ret = 0 /\ objs.priv[m].hop_penalty = 255)
        /\ LastVal.val.vu32 = 256 =>
              /\ last.ret \in {-ERANGE, -EINVAL}
              /\ objs.priv[m].hop_penalty = last.s0.priv[m].hop_penalty

(* C5: a mesh set of gw_mode with a string other than off, client, server  *)
(* is rejected and leaves the stored mode unchanged; a set of gw_sel_class *)
(* while the routing algorithm lacks the gateway API is rejected           *)
(* -EOPNOTSUPP and leaves sel_class unchanged.                             *)
GwModeNames ==
    {BATADV_GW_MODE_OFF_NAME, BATADV_GW_MODE_CLIENT_NAME, BATADV_GW_MODE_SERVER_NAME}
C5_GatewayRejected ==
    (SetReaches /\ last.scope = "mesh") =>
        LET m == last.r.mesh_ifindex IN
        /\ (last.r.name = "gw_mode" /\ LastVal.val.string \notin GwModeNames) =>
              (last.ret < 0 /\ objs.priv[m].gw_mode = last.s0.priv[m].gw_mode)
        /\ (last.r.name = "gw_sel_class" /\ GwApiMissing(m)) =>
              /\ last.ret = -EOPNOTSUPP
              /\ objs.priv[m].gw_sel_class = last.s0.priv[m].gw_sel_class

(* C6: for every descriptor and every value v its validate accepts, a      *)
(* successful set of v followed at once by a get on the same scope object  *)
(* returns v.                                                              *)
\* the get request for the option and scope object of the last request
GetOfLast ==
    [last.r EXCEPT !.attrs = @ \ {"BATADV_ATTR_OPTION_TYPE", "BATADV_ATTR_OPTION_VALUE"},
                   !.type = "", !.value = <<>>]
GetAfterLast ==
    LET env == [alloc |-> TRUE, reply |-> 0, mcast |-> 0] IN
    CASE last.scope = "mesh" -> batadv_get_option(GetOfLast, objs, env)
      [] last.scope = "hardif" -> batadv_get_option_hardif(GetOfLast, objs, env)
      [] last.scope = "vlan" -> batadv_get_option_vlan(GetOfLast, objs, env)
\* the option value a get reply carries, as a batadv_config_value
ReplyValue(msg, type) ==
    LET as == msg.ents[1].attrs
        vs == {i \in DOMAIN as : as[i].type = "BATADV_ATTR_OPTION_VALUE"}
        a == as[CHOOSE i \in vs : TRUE]
    IN CASE type = "NLA_FLAG" -> VBool(IF vs = {} THEN 0 ELSE 1)
         [] vs = {} -> NoVal
         [] type = "NLA_U32" -> VU32(a.num)
         [] type = "NLA_NUL_STRING" -> VStr(a.bytes)
         [] OTHER -> NoVal
C6_SetGetRoundTrip ==
    (/\ SetReaches /\ last.ret = 0 /\ pc = "done"
     /\ LastOpt.validate # "" =>
           OptionValidate(LastOpt, last.s0, last.r.mesh_ifindex, LastExt, LastVal.val) = 0)
    => LET g == GetAfterLast IN
       /\ g.ret = 0
       /\ Len(g.reply) = 1
       /\ ReplyValue(g.reply[1], LastOpt.type) = LastVal.val

(* C7: a get or set that carries all the attributes its handler requires   *)
(* and names an option that is not in the scope's table fails -EOPNOTSUPP  *)
(* whether or not the identification resolves; it takes no reference and   *)
(* calls no callback.                                                      *)
UnknownName ==
    /\ last.op \in {"get", "set"}
    /\ Has("BATADV_ATTR_OPTION_NAME") /\ LastIdx = 0
C7_UnknownNameNotSupported ==
    (UnknownName /\ IdAttrs /\ (last.op = "set" => Has("BATADV_ATTR_OPTION_TYPE"))) =>
        /\ last.ret = -EOPNOTSUPP
        /\ last.trace = <<>>
        /\ refcnt = last.ref0 /\ objs = last.s0
\* C7 as stated: every get or set with a name not in the table fails
\* -EOPNOTSUPP, whatever else the request carries
C7_Original ==
    UnknownName =>
        /\ last.ret = -EOPNOTSUPP
        /\ last.trace = <<>>
\* an unknown name for a device that does not exist
C7_Witness ==
    /\ UnknownName /\ IdAttrs /\ last.op = "set" /\ Has("BATADV_ATTR_OPTION_TYPE")
    /\ last.r.mesh_ifindex \notin NetDevs
    /\ last.ret = -EOPNOTSUPP

(* C8: a set whose option_kind differs from the kind of the descriptor     *)
(* found fails -EINVAL, and neither validate nor set of that descriptor    *)
(* is called; in all three scopes.                                         *)
KindMismatch ==
    /\ last.op = "set" /\ Named /\ Has("BATADV_ATTR_OPTION_TYPE")
    /\ last.r.type # LastOpt.type
C8_KindMismatchRejected ==
    KindMismatch =>
        /\ last.ret = -EINVAL
        /\ Callbacks = {}
        /\ objs = last.s0
\* a mismatching kind in a request that is otherwise well-formed
C8_Witness ==
    /\ KindMismatch /\ last.scope = "vlan" /\ IdAttrs /\ Resolves
    /\ last.r.type = "NLA_U32" /\ Has("BATADV_ATTR_OPTION_VALUE")
    /\ last.ret = -EINVAL

(* C9: an enumeration started with cursor 0 and continued while the dump   *)
(* returns data yields, over all its calls, exactly the descriptors of the *)
(* scope's table whose get succeeds, each once and in table order; those   *)
(* whose get fails are absent, and no call fails because of an entry.      *)
DumpResolved == last.op = "dump" /\ IdAttrs /\ Resolves
GetSucceeds(o) == OptionGet(o, objs, last.r.mesh_ifindex, LastExt).ret = 0
RECURSIVE NamesOf(_)
NamesOf(options) ==
    IF options = <<>> THEN <<>> ELSE <<Head(options).name>> \o NamesOf(Tail(options))
C9_DumpEnumerates ==
    DumpResolved =>
        /\ last.ret >= 0
        /\ pc = "done" =>
              /\ Complete(cb.out)
              /\ EntNames(cb.out) = NamesOf(SelectSeq(Tbl(last.scope), GetSucceeds))

(* C10: within one dump call an entry whose building fails -EOPNOTSUPP is  *)
(* skipped and the loop goes on with the next entry; any other failure     *)
(* ends the loop, and the cursor stored is the index of the entry that     *)
(* failed, which the follow-up call attempts first.                        *)
IsGet(e) == e.ev = "get"
Attempted == SelectSeq(last.trace, IsGet)
Emitted(n) == \E i \in DOMAIN last.msg.ents :
                  last.msg.ents[i].ended /\ EntName(last.msg.ents[i]) = n
C10_Call ==
    DumpResolved =>
        LET tbl == Tbl(last.scope)
            n == Len(Attempted)
        IN /\ last.start + n <= Len(tbl)
           /\ (last.start < Len(tbl)) => n > 0
           /\ cb.args0 = last.args0
           /\ \A k \in 1 .. n :
                 LET o == tbl[last.start + k]
                     g == OptionGet(o, last.s0, last.r.mesh_ifindex, LastExt).ret
                     goesOn == IF k < n THEN TRUE ELSE last.args0 = Len(tbl)
                 IN /\ Attempted[k].opt = o.name
                    /\ IF g = -EOPNOTSUPP THEN ~Emitted(o.name) /\ goesOn
                       ELSE IF Emitted(o.name) THEN goesOn
                       ELSE k = n /\ last.args0 = last.start + k - 1
           /\ (n = 0) => last.args0 = last.start
\* the follow-up call of a dump starts at the cursor the previous call stored
C10_FollowUp == [][(pc = "dumping" /\ last'.op = "dump") => last'.start = cb.args0]_vars
C10_DumpLoop == []C10_Call /\ C10_FollowUp
\* a call that skips an unsupported entry, goes on, and stops at a later one
C10_Witness ==
    /\ DumpResolved /\ pc = "dumping"
    /\ last.args0 < Len(Tbl(last.scope))
    /\ \E k \in 1 .. Len(Attempted) - 1 :
          LET o == Tbl(last.scope)[last.start + k] IN
          OptionGet(o, last.s0, last.r.mesh_ifindex, LastExt).ret = -EOPNOTSUPP
\* a follow-up call that starts at an entry the previous call stopped at
C10_WitnessFollowUp ==
    /\ DumpResolved /\ last.start > 0 /\ last.start < Len(Tbl(last.scope))
    /\ Len(Attempted) > 0 /\ cb.calls > 1

(* C11: across the calls of one enumeration the cursor starts at 0 and     *)
(* never decreases; after each call it is the start cursor plus the number *)
(* of descriptors the call visited (emitted, or skipped as unsupported)    *)
(* and it never exceeds the table length; a call started at the table      *)
(* length emits nothing and leaves the cursor as it was.                   *)
Visited ==
    {k \in 1 .. Len(Attempted) :
        LET o == Tbl(last.scope)[last.start + k] IN
        \/ Emitted(o.name)
        \/ OptionGet(o, last.s0, last.r.mesh_ifindex, LastExt).ret = -EOPNOTSUPP}
C11_Call ==
    last.op = "dump" =>
        /\ cb.calls = 1 => last.start = 0
        /\ cb.args0 = last.args0
        /\ last.args0 >= last.start
        /\ last.args0 = last.start + Cardinality(Visited)
        /\ last.args0 <= Len(Tbl(last.scope))
        /\ last.start = Len(Tbl(last.scope)) =>
              (last.msg.ents = <<>> /\ last.args0 = last.start)
C11_Step ==
    [][(pc = "dumping" /\ last'.op = "dump") =>
          (last'.start = cb.args0 /\ last'.args0 >= cb.args0)]_vars
C11_Cursor == []C11_Call /\ C11_Step
\* a follow-up call that starts at the table length, after a call that
\* skipped an unsupported descriptor
C11_Witness ==
    /\ DumpResolved /\ cb.calls = 2 /\ pc = "done"
    /\ last.start = Len(Tbl(last.scope)) /\ last.args0 = last.start
    /\ Len(cb.out) < Len(Tbl(last.scope)) /\ Len(cb.out) > 0
\* a call that visits descriptors, skipping one, and then stops early
C11_WitnessStop ==
    /\ DumpResolved /\ cb.calls > 1 /\ Cardinality(Visited) > 1
    /\ last.args0 < Len(Tbl(last.scope))
    /\ \E k \in Visited : ~Emitted(Tbl(last.scope)[last.start + k].name)

(* C12: no partially built message is surfaced: when appending the header  *)
(* or an attribute of an entry fails, what was written for the entry is    *)
(* removed from the buffer, so the messages handed out and the length a    *)
(* dump call returns cover complete entries only.                          *)
IsEnded(e) == e.ended
C12_NoPartialMessage ==
    last.op # "" =>
        /\ \A i \in DOMAIN last.reply : Complete(last.reply[i].ents)
        /\ \A i \in DOMAIN last.mc : Complete(last.mc[i].ents)
        /\ Complete(last.msg.ents)
        /\ (last.op = "dump" /\ last.ret >= 0) =>
              last.ret = EntsSize(SelectSeq(last.msg.ents, IsEnded))

(* C13: every message built for a get response, a dump entry or a          *)
(* notification holds, in order, option name, option kind, option value    *)
(* (for a flag: present when set, absent when clear) and then the scope    *)
(* identifiers of the request: the mesh interface index always, the hard   *)
(* interface index for hard-interface scope, the VLAN id for VLAN scope.   *)
RECURSIVE AttrTypes(_)
AttrTypes(attrs) ==
    IF attrs = <<>> THEN <<>> ELSE <<Head(attrs).type>> \o AttrTypes(Tail(attrs))
ScopeIds ==
    <<"BATADV_ATTR_MESH_IFINDEX">> \o
    (CASE last.scope = "hardif" -> <<"BATADV_ATTR_HARD_IFINDEX">>
       [] last.scope = "vlan" -> <<"BATADV_ATTR_VLANID">>
       [] OTHER -> <<>>)
\* the attributes the message of entry e is to hold, by the value the
\* option has when the request returns
Layout(e) ==
    LET tbl == Tbl(last.scope)
        o == tbl[CHOOSE i \in DOMAIN tbl : tbl[i].name = EntName(e)]
        g == OptionGet(o, objs, last.r.mesh_ifindex, LastExt)
    IN <<"BATADV_ATTR_OPTION_NAME", "BATADV_ATTR_OPTION_TYPE">>
       \o (IF o.type = "NLA_FLAG" /\ g.val.vbool = 0 THEN <<>>
           ELSE <<"BATADV_ATTR_OPTION_VALUE">>)
       \o ScopeIds
\* the complete messages the last request built
Surfaced ==
    LET all == last.msg.ents
               \o (IF last.reply = <<>> THEN <<>> ELSE last.reply[1].ents)
               \o (IF last.mc = <<>> THEN <<>> ELSE last.mc[1].ents)
    IN {all[i] : i \in {j \in DOMAIN all : all[j].ended}}
C13_MessageLayout ==
    \A e \in Surfaced :
        /\ \E i \in DOMAIN Tbl(last.scope) : Tbl(last.scope)[i].name = EntName(e)
        /\ AttrTypes(e.attrs) = Layout(e)

(* C14: a change notification is broadcast only for a set request whose    *)
(* set callback succeeded, only after the new value was stored, and at     *)
(* most once per request; a set request that fails (missing attribute,     *)
(* unknown name, kind mismatch, decode failure, resolution failure, set    *)
(* failure) and any get or dump broadcasts nothing.                        *)
Broadcasts == EvAt("genlmsg_multicast_netns")
C14_NotifyAfterSet ==
    last.op # "" =>
        /\ Cardinality(Broadcasts) <= 1
        /\ Len(last.mc) = Cardinality(Broadcasts)
        /\ (last.op # "set" \/ last.ret < 0) => Broadcasts = {}
        /\ Broadcasts # {} =>
              LET st == OptionSet(LastOpt, last.s0, last.r.mesh_ifindex, LastExt, LastVal.val)
              IN /\ SetReaches /\ st.ret = 0
                 /\ Cardinality(EvAt("set")) = 1
                 /\ \A i \in EvAt("set"), j \in Broadcasts :
                       i < j /\ last.trace[i].opt = last.r.name
                 /\ objs = st.s
                 /\ EntName(last.mc[1].ents[1]) = last.r.name
\* a set request that stored a new value and broadcast it
C14_Witness ==
    /\ last.op = "set" /\ last.ret = 0 /\ Len(last.mc) = 1
    /\ objs # last.s0
\* a set request whose set callback failed
C14_WitnessSetFails ==
    /\ last.op = "set" /\ last.ret < 0 /\ EvAt("set") # {} /\ last.mc = <<>>

(* C15: when the notification after a successful set callback cannot be    *)
(* allocated, built or sent, the set request still returns success and     *)
(* the value the callback stored stays in place.                           *)
SetDone ==
    /\ SetReaches
    /\ OptionSet(LastOpt, last.s0, last.r.mesh_ifindex, LastExt, LastVal.val).ret = 0
NotifyFailed ==
    \/ EvAt("nlmsg_new_failed") # {}
    \/ EvAt("genlmsg_cancel") # {}
    \/ EvAt("genlmsg_multicast_netns_failed") # {}
C15_NotifyFailureSwallowed ==
    (SetDone /\ NotifyFailed) =>
        /\ last.ret = 0
        /\ last.mc = <<>>
        /\ objs = OptionSet(LastOpt, last.s0, last.r.mesh_ifindex, LastExt, LastVal.val).s
\* a stored value whose notification could not be allocated
C15_Witness ==
    /\ SetDone /\ EvAt("nlmsg_new_failed") # {} /\ objs # last.s0 /\ last.ret = 0
\* a stored value whose notification could not be built
C15_WitnessBuild ==
    /\ SetDone /\ EvAt("genlmsg_cancel") # {} /\ objs # last.s0 /\ last.ret = 0
\* a stored value whose notification could not be sent
C15_WitnessSend ==
    /\ SetDone /\ EvAt("genlmsg_multicast_netns_failed") # {} /\ objs # last.s0
    /\ last.ret = 0

(* C16: the notification broadcast for a successful set of v carries the   *)
(* value this set stored, also when other set requests on the same option  *)
(* of the same scope object run at the same time.                          *)
C16_NotifyCarriesStored ==
    \A p \in Procs :
        procs[p].mc # <<>> =>
            ReplyValue(procs[p].mc[1], ConcOption(p).type) = procs[p].stored

(* C17: a get whose descriptor's get callback fails for a reason of its    *)
(* own (gw_mode or gw_sel_class under a routing algorithm without the      *)
(* gateway API, mesh ap_isolation while the untagged VLAN is absent)       *)
(* fails -EOPNOTSUPP.                                                      *)
GetReaches == last.op = "get" /\ IdAttrs /\ Named /\ Resolves
C17_GetFailureNotSupported ==
    (/\ GetReaches /\ EvAt("get") # {}
     /\ OptionGet(LastOpt, last.s0, last.r.mesh_ifindex, LastExt).ret < 0) =>
        last.ret = -EOPNOTSUPP

(* C18: a get or dump request, whatever its outcome, changes the value of  *)
(* no option and leaves every reference count as it was before.            *)
C18_GetDumpFrame ==
    last.op \in {"get", "dump"} =>
        /\ objs = last.s0
        /\ refcnt = last.ref0
        /\ EvAt("set") = {}
\* a VLAN get that took both references and answered
C18_Witness ==
    /\ last.op = "get" /\ last.scope = "vlan" /\ last.ret = 0
    /\ Cardinality(EvAt("hold")) = 2 /\ Len(last.reply) = 1
\* a dump call that took its references and failed at an entry
C18_WitnessDump ==
    /\ last.op = "dump" /\ EvAt("hold") # {} /\ last.args0 < Len(Tbl(last.scope))

(* C19: a request that lacks a required attribute (mesh_if_index; the      *)
(* hard_if_index in hard-interface scope; the vlan_id in VLAN scope; the   *)
(* option_name of a get or set; the option_kind of a set) or declares the  *)
(* wrong kind fails -EINVAL before any resolution: it takes no reference   *)
(* on a device, hard interface or VLAN.                                    *)
Malformed ==
    /\ last.op # ""
    /\ \/ ~IdAttrs
       \/ last.op \in {"get", "set"} /\ ~Has("BATADV_ATTR_OPTION_NAME")
       \/ last.op = "set" /\ ~Has("BATADV_ATTR_OPTION_TYPE")
       \/ KindMismatch
C19_MalformedRejected ==
    Malformed =>
        /\ last.ret = -EINVAL
        /\ EvAt("hold") = {} /\ Callbacks = {}
        /\ refcnt = last.ref0 /\ objs = last.s0
\* a hard-interface request for existing devices that lacks one attribute
C19_Witness ==
    /\ Malformed /\ last.scope = "hardif" /\ last.op = "get"
    /\ Has("BATADV_ATTR_MESH_IFINDEX") /\ ~Has("BATADV_ATTR_HARD_IFINDEX")
    /\ Has("BATADV_ATTR_OPTION_NAME") /\ LastIdx # 0
    /\ last.r.mesh_ifindex \in Meshes /\ last.ret = -EINVAL
\* a dump request without the VLAN id
C19_WitnessDump ==
    /\ Malformed /\ last.scope = "vlan" /\ last.op = "dump"
    /\ Has("BATADV_ATTR_MESH_IFINDEX") /\ last.r.mesh_ifindex \in Meshes
\* a set of the wrong kind
C19_WitnessKind ==
    /\ KindMismatch /\ IdAttrs /\ Resolves /\ last.scope = "hardif"

(* C20: in every handler, resolving the mesh fails -ENODEV when no device  *)
(* has the given mesh ifindex, and fails -EINVAL, after the reference on   *)
(* the device was dropped, when the device is not a mesh instance; in      *)
(* hard-interface scope, no device with the given hard ifindex fails       *)
(* -ENODEV and the reference on the mesh device is dropped.                *)
\* the request passes every check the handler makes before dev_get_by_index()
ReachesResolution ==
    /\ last.op # "" /\ IdAttrs
    /\ last.op \in {"get", "set"} => Named
    /\ last.op = "set" =>
          /\ Has("BATADV_ATTR_OPTION_TYPE")
          /\ last.r.type = LastOpt.type
          /\ LastVal.ret = 0
HeldAndPut(o) == last.trace = <<Hold(o), Put(o)>>
C20_ScopeResolution ==
    ReachesResolution =>
        /\ last.r.mesh_ifindex \notin NetDevs =>
              /\ last.ret = -ENODEV
              /\ last.trace = <<>> /\ refcnt = last.ref0
        /\ last.r.mesh_ifindex \in NetDevs \ Meshes =>
              /\ last.ret = -EINVAL
              /\ HeldAndPut(DevObj(last.r.mesh_ifindex)) /\ refcnt = last.ref0
        /\ /\ last.scope = "hardif" /\ last.r.mesh_ifindex \in Meshes
           /\ last.r.hard_ifindex \notin NetDevs
           => /\ last.ret = -ENODEV
              /\ HeldAndPut(DevObj(last.r.mesh_ifindex)) /\ refcnt = last.ref0

(* C21: a VLAN-scope get, set or dump whose vlan_id, looked up with        *)
(* BATADV_VLAN_HAS_TAG set, matches no VLAN of the resolved mesh fails     *)
(* -ENOENT, calls no get, set or validate of a descriptor, and drops the   *)
(* reference on the mesh device.                                           *)
NoSuchVlan ==
    /\ last.scope = "vlan" /\ ReachesResolution
    /\ last.r.mesh_ifindex \in Meshes
    /\ <<last.r.mesh_ifindex, BATADV_VLAN_HAS_TAG + last.r.vlanid>> \notin VlanObjs
C21_NoSuchVlan ==
    NoSuchVlan =>
        /\ last.ret = -ENOENT
        /\ Callbacks = {}
        /\ HeldAndPut(DevObj(last.r.mesh_ifindex))
        /\ refcnt = last.ref0 /\ objs = last.s0
\* a dump of vid 0 on mesh 1, which has the untagged VLAN 0 only
C21_Witness ==
    /\ NoSuchVlan /\ last.op = "dump" /\ last.r.vlanid = 0
    /\ <<last.r.mesh_ifindex, BATADV_NO_FLAGS>> \in VlanObjs
    /\ last.ret = -ENOENT
C21_WitnessGet == NoSuchVlan /\ last.op = "get" /\ last.ret = -ENOENT
C21_WitnessSet == NoSuchVlan /\ last.op = "set" /\ last.ret = -ENOENT

(* C22: every handler releases in reverse acquisition order, on success    *)
(* and on every error exit: each release drops the reference acquired      *)
(* last among those still held, so the hard interface goes before its      *)
(* device, that device before the mesh device, and the VLAN before the     *)
(* mesh device.                                                            *)
\* the holds and puts of a trace nest: held is the stack of references held
RECURSIVE Nested(_, _)
Nested(tr, held) ==
    IF tr = <<>> THEN held = <<>>
    ELSE IF Head(tr).ev = "hold" THEN Nested(Tail(tr), <<Head(tr).obj>> \o held)
    ELSE IF Head(tr).ev = "put"
         THEN held # <<>> /\ Head(held) = Head(tr).obj /\ Nested(Tail(tr), Tail(held))
    ELSE Nested(Tail(tr), held)
\* the objects the handler released, in the order of their last release
PutAt(o) == {i \in DOMAIN last.trace : last.trace[i] = Put(o)}
PutsBefore(a, b) ==
    PutAt(a) # {} /\ PutAt(b) # {} /\ \A i \in PutAt(a) : \E j \in PutAt(b) : i < j
C22_ReverseRelease ==
    last.op # "" =>
        /\ Nested(last.trace, <<>>)
        /\ last.scope = "hardif" /\ PutAt(HardIfObj(last.r.hard_ifindex)) # {} =>
              PutsBefore(HardIfObj(last.r.hard_ifindex), DevObj(last.r.hard_ifindex))
        /\ /\ last.scope = "hardif" /\ last.r.hard_ifindex # last.r.mesh_ifindex
           /\ PutAt(DevObj(last.r.hard_ifindex)) # {}
           => PutsBefore(DevObj(last.r.hard_ifindex), DevObj(last.r.mesh_ifindex))
        /\ last.scope = "vlan" /\ LastExt # NullObj /\ PutAt(LastExt) # {} =>
              PutsBefore(LastExt, DevObj(last.r.mesh_ifindex))
\* a hard-interface set that stored a value and released its three references
C22_Witness ==
    /\ last.op = "set" /\ last.scope = "hardif" /\ last.ret = 0
    /\ EvAt("set") # {} /\ Cardinality(EvAt("put")) = 3
\* an error exit after the hard device was resolved: it has no hard interface
C22_WitnessPartial ==
    /\ last.op = "get" /\ last.scope = "hardif" /\ last.ret = -EINVAL
    /\ Cardinality(EvAt("put")) = 2
    /\ PutAt(DevObj(last.r.hard_ifindex)) # {}
\* a VLAN dump that released the VLAN and the mesh device
C22_WitnessVlan ==
    /\ last.op = "dump" /\ last.scope = "vlan" /\ PutAt(LastExt) # {}

(* C23: within a request, every call of a descriptor's get or set and      *)
(* every step of building a reply or a notification happens while the      *)
(* handler holds the reference of each scope object it passes to them:     *)
(* after the hold and before the put of the mesh device, and of the hard   *)
(* device and hard interface, or of the VLAN, in those scopes.             *)
\* the handler holds a reference on o when it takes step i of its trace
HeldAt(o, i) ==
    Cardinality({j \in 1 .. (i - 1) : last.trace[j] = Hold(o)})
        > Cardinality({j \in 1 .. (i - 1) : last.trace[j] = Put(o)})
\* the scope objects the handler of the request passes to the callbacks
ScopeObjs ==
    {DevObj(last.r.mesh_ifindex)}
    \cup (IF last.scope = "hardif"
          THEN {DevObj(last.r.hard_ifindex), HardIfObj(last.r.hard_ifindex)} ELSE {})
    \cup (IF last.scope = "vlan" THEN {LastExt} ELSE {})
Accesses == {i \in DOMAIN last.trace : last.trace[i].ev \notin {"hold", "put"}}
C23_AccessWhileHeld ==
    \A i \in Accesses : \A o \in ScopeObjs : HeldAt(o, i)
\* a VLAN set that stored a value and built its notification
C23_Witness ==
    /\ last.op = "set" /\ last.scope = "vlan" /\ last.ret = 0
    /\ EvAt("set") # {} /\ Broadcasts # {}
\* a hard-interface set that stored a value and built its notification
C23_WitnessHardif ==
    /\ last.op = "set" /\ last.scope = "hardif" /\ last.ret = 0
    /\ EvAt("set") # {} /\ Broadcasts # {}

(* C24: a set request that fails, at whatever check, leaves the value of   *)
(* every option of every mesh, hard interface and VLAN as it was before    *)
(* the request.                                                            *)
SetFailed == last.op = "set" /\ last.ret < 0
C24_FailedSetNoChange ==
    SetFailed => objs = last.s0
\* a set whose set callback failed: ap_isolation on a mesh without VLAN 0
C24_Witness ==
    /\ SetFailed /\ EvAt("set") # {} /\ last.r.name = "ap_isolation"
    /\ last.scope = "mesh" /\ last.ret = -ENOENT
\* a set for a hard interface of another mesh, with a value that differs
C24_WitnessOwner ==
    /\ SetFailed /\ last.scope = "hardif" /\ ReachesResolution
    /\ last.r.mesh_ifindex \in Meshes /\ last.r.hard_ifindex \in HardIfs
    /\ hard_iface_soft_iface[last.r.hard_ifindex] # last.r.mesh_ifindex
    /\ OptionGet(LastOpt, objs, last.r.mesh_ifindex, LastExt).val # LastVal.val

(* C25: flag codec.  A set of an NLA_FLAG option decodes a request         *)
(* without BATADV_ATTR_OPTION_VALUE to false and one with it to true; a    *)
(* message built for a flag option omits the value attribute for false     *)
(* and includes it for true; so decoding what was built gives the value    *)
(* back, for both booleans.                                                *)
\* the descriptor a built message names, and the boolean it was built for
EntOpt(e) ==
    LET tbl == Tbl(last.scope)
    IN tbl[CHOOSE i \in DOMAIN tbl : tbl[i].name = EntName(e)]
EntBool(e) == OptionGet(EntOpt(e), objs, last.r.mesh_ifindex, LastExt).val.vbool
EntHasValue(e) == \E i \in DOMAIN e.attrs : e.attrs[i].type = "BATADV_ATTR_OPTION_VALUE"
FlagMsgs == {e \in Surfaced : EntOpt(e).type = "NLA_FLAG"}
\* the request that carries the value attribute of message e, if it has one
AsRequest(e) ==
    [NoReq EXCEPT !.attrs = IF EntHasValue(e) THEN {"BATADV_ATTR_OPTION_VALUE"} ELSE {}]
FlagStored ==
    /\ SetReaches /\ LastOpt.type = "NLA_FLAG" /\ last.ret = 0 /\ EvAt("set") # {}
C25_FlagCodec ==
    /\ FlagStored =>
          OptionGet(LastOpt, objs, last.r.mesh_ifindex, LastExt).val
              = VBool(IF Has("BATADV_ATTR_OPTION_VALUE") THEN 1 ELSE 0)
    /\ \A e \in FlagMsgs :
          /\ EntHasValue(e) <=> EntBool(e) # 0
          /\ batadv_option_value_get_from_info(EntOpt(e), AsRequest(e))
                = [ret |-> 0, val |-> VBool(EntBool(e))]
\* a set of true whose notification carries the value attribute
C25_Witness ==
    /\ FlagStored /\ Has("BATADV_ATTR_OPTION_VALUE")
    /\ \E e \in FlagMsgs : EntHasValue(e) /\ last.mc # <<>>
\* a set of false whose notification omits the value attribute
C25_WitnessFalse ==
    /\ FlagStored /\ ~Has("BATADV_ATTR_OPTION_VALUE")
    /\ \E e \in FlagMsgs : ~EntHasValue(e) /\ last.mc # <<>>
\* a dump that built messages for flags of both values
C25_WitnessDump ==
    /\ last.op = "dump"
    /\ \E e \in FlagMsgs : EntHasValue(e)
    /\ \E e \in FlagMsgs : ~EntHasValue(e)

(* C26: string codec.  The payload of an NLA_NUL_STRING option decodes     *)
(* iff it is non-empty and has a NUL within its first min(32, length)      *)
(* bytes, to the bytes before that NUL; any other payload fails -EINVAL    *)
(* (so 40 bytes without a NUL in the first 32 do); a payload that ends     *)
(* with its only NUL, of 31 bytes and the terminator included, is built    *)
(* back byte for byte.                                                     *)
\* a set request whose value is decoded as a string
StrDecoded ==
    /\ last.op = "set" /\ IdAttrs /\ Named /\ Has("BATADV_ATTR_OPTION_TYPE")
    /\ last.r.type = LastOpt.type /\ LastOpt.type = "NLA_NUL_STRING"
    /\ Has("BATADV_ATTR_OPTION_VALUE")
\* the positions of a NUL within the first min(32, length) bytes
NulAt ==
    {i \in 1 .. Len(last.r.value) :
        i <= __BATADV_PARAM_MAX_STRING_VALUE /\ last.r.value[i] = 0}
Content ==
    SubSeq(last.r.value, 1, (CHOOSE i \in NulAt : \A j \in NulAt : i <= j) - 1)
\* the value attribute built for the decoded string
Rebuilt ==
    PutValue(genlmsg_put(nlmsg_new(NLMSG_DEFAULT_SIZE), 0, "BATADV_CMD_GET_OPTION").msg,
             LastOpt, LastVal.val).msg.ents[1].attrs[1]
C26_StringCodec ==
    StrDecoded =>
        /\ LastVal.ret = 0 <=> NulAt # {}
        /\ NulAt = {} => last.ret = -EINVAL /\ Callbacks = {} /\ objs = last.s0
        /\ NulAt # {} =>
              /\ LastVal.val = VStr(Content)
              /\ Resolves => EvAt("set") # {}
        /\ NulAt # {} /\ Content \o <<0>> = last.r.value =>
              /\ Rebuilt.len = Len(last.r.value)
              /\ Rebuilt.bytes \o <<0>> = last.r.value
\* 31 bytes and the terminator, decoded and handed to the set callback
C26_Witness ==
    /\ StrDecoded /\ Len(last.r.value) = __BATADV_PARAM_MAX_STRING_VALUE
    /\ Len(Content) = __BATADV_PARAM_MAX_STRING_VALUE - 1
    /\ EvAt("set") # {} /\ last.ret = 0
\* 40 bytes with a NUL after the first 32 only
C26_WitnessLong ==
    /\ StrDecoded /\ Len(last.r.value) > __BATADV_PARAM_MAX_STRING_VALUE
    /\ NulAt = {} /\ \E i \in DOMAIN last.r.value : last.r.value[i] = 0
    /\ last.ret = -EINVAL
\* an empty payload
C26_WitnessEmpty == StrDecoded /\ last.r.value = <<>> /\ last.ret = -EINVAL

(* C27: integer codec.  For an NLA_U8, NLA_U16 or NLA_U32 option, a set    *)
(* whose value attribute is absent or whose payload is shorter than 1, 2   *)
(* or 4 bytes fails -EINVAL and calls no set; a payload of at least that   *)
(* width decodes to the integer in its leading bytes.                      *)
IntWidth == [NLA_U8 |-> 1, NLA_U16 |-> 2, NLA_U32 |-> 4]
\* the integer in the first w bytes of the payload of the last request
RECURSIVE Leading(_)
Leading(w) ==
    IF w = 0 THEN 0 ELSE Leading(w - 1) + last.r.value[w] * 2 ^ (8 * (w - 1))
ShortFor(ty) ==
    ~Has("BATADV_ATTR_OPTION_VALUE") \/ Len(last.r.value) < IntWidth[ty]
IntValue(ty, n) ==
    CASE ty = "NLA_U8" -> [NoVal EXCEPT !.vu8 = n]
      [] ty = "NLA_U16" -> [NoVal EXCEPT !.vu16 = n]
      [] ty = "NLA_U32" -> [NoVal EXCEPT !.vu32 = n]
\* a set request that reaches the decoding of an integer option
IntDecoded ==
    /\ last.op = "set" /\ IdAttrs /\ Named /\ Has("BATADV_ATTR_OPTION_TYPE")
    /\ last.r.type = LastOpt.type /\ LastOpt.type \in DOMAIN IntWidth
C27_IntegerCodec ==
    /\ last.op = "set" /\ Named =>
          \A ty \in DOMAIN IntWidth :
              batadv_option_value_get_from_info([LastOpt EXCEPT !.type = ty], last.r)
                  = IF ShortFor(ty) THEN [ret |-> -EINVAL, val |-> NoVal]
                    ELSE [ret |-> 0, val |-> IntValue(ty, Leading(IntWidth[ty]))]
    /\ IntDecoded /\ ShortFor(LastOpt.type) =>
          last.ret = -EINVAL /\ Callbacks = {} /\ objs = last.s0
    /\ IntDecoded /\ ~ShortFor(LastOpt.type) /\ Resolves =>
          /\ EvAt("set") # {}
          /\ last.ret = 0 /\ LastOpt.name = "hop_penalty" =>
                objs.priv[last.r.mesh_ifindex].hop_penalty = Leading(IntWidth[LastOpt.type])
\* a payload longer than the width, decoded and stored
C27_Witness ==
    /\ IntDecoded /\ Len(last.r.value) > IntWidth[LastOpt.type] /\ last.ret = 0
    /\ LastOpt.name = "hop_penalty"
    /\ objs.priv[last.r.mesh_ifindex].hop_penalty > 65535
\* a payload of two bytes for a u32 option, for objects that exist
C27_WitnessShort ==
    /\ IntDecoded /\ Has("BATADV_ATTR_OPTION_VALUE") /\ ShortFor(LastOpt.type)
    /\ Resolves /\ last.ret = -EINVAL
\* no value attribute
C27_WitnessAbsent ==
    /\ IntDecoded /\ ~Has("BATADV_ATTR_OPTION_VALUE") /\ Resolves /\ last.ret = -EINVAL

(* C28: a descriptor compiled out of its table (bridge_loop_avoidance,     *)
(* distributed_arp_table, log_level, multicast_mode, network_coding;       *)
(* elp_interval and throughput_override, without which the hard-interface  *)
(* table is empty) gives -EOPNOTSUPP to a get and to a set by its name,    *)
(* and is absent from a dump, which completes without error and with the   *)
(* cursor at the table length.                                             *)
\* the names inside #ifdef in each table, with the symbol of the #ifdef
Conditional ==
    [mesh |-> { <<"bridge_loop_avoidance", "CONFIG_BATMAN_ADV_BLA">>,
                <<"distributed_arp_table", "CONFIG_BATMAN_ADV_DAT">>,
                <<"log_level", "CONFIG_BATMAN_ADV_DEBUG">>,
                <<"multicast_mode", "CONFIG_BATMAN_ADV_MCAST">>,
                <<"network_coding", "CONFIG_BATMAN_ADV_NC">> },
     hardif |-> { <<"elp_interval", "CONFIG_BATMAN_ADV_BATMAN_V">>,
                  <<"throughput_override", "CONFIG_BATMAN_ADV_BATMAN_V">> },
     vlan |-> {}]
CompiledOut == {c[1] : c \in {d \in Conditional[last.scope] : d[2] \notin config}}
\* a get or set by the name of a compiled-out descriptor, with its attributes
NamesCompiledOut ==
    /\ last.op \in {"get", "set"} /\ IdAttrs /\ Has("BATADV_ATTR_OPTION_NAME")
    /\ last.op = "set" => Has("BATADV_ATTR_OPTION_TYPE")
    /\ last.r.name \in CompiledOut
\* a dump of a table that has compiled-out descriptors
DumpCompiledOut == DumpResolved /\ CompiledOut # {}
C28_CompiledOut ==
    last.op # "" =>
        /\ NamesCompiledOut =>
              last.ret = -EOPNOTSUPP /\ last.trace = <<>> /\ objs = last.s0
        /\ DumpCompiledOut =>
              /\ \A n \in CompiledOut : ~Emitted(n) /\ \A k \in DOMAIN Attempted : Attempted[k].opt # n
              /\ last.ret >= 0
              /\ pc = "done" => cb.args0 = Len(Tbl(last.scope))

(* C29: a get that runs at the same time as a set of v on the same option  *)
(* of the same scope object returns the value stored before that set or    *)
(* v, never another value; gw_mode, whose set takes several steps before   *)
(* it stores the mode, included.                                           *)
IsSetProc(q) == "BATADV_ATTR_OPTION_TYPE" \in procs[q].r.attrs
\* the values a get of process g may have read: the one the option had at
\* first and the v of every set of the option that has entered its handler
MayRead(g) ==
    {OptionGet(ConcOption(g), InitObjs, procs[g].r.mesh_ifindex, NullObj).val}
    \cup {batadv_option_value_get_from_info(ConcOption(q), procs[q].r).val :
            q \in {x \in Procs : /\ IsSetProc(x) /\ procs[x].pc # "start"
                                 /\ procs[x].r.name = procs[g].r.name
                                 /\ procs[x].r.mesh_ifindex = procs[g].r.mesh_ifindex}}
NotifiedVids ==
    IF last.mc = <<>> THEN {}
    ELSE LET as == last.mc[1].ents[1].attrs
         IN {as[i] : i \in {j \in DOMAIN as : as[j].type = "BATADV_ATTR_VLANID"}}
C30_VlanIdWire ==
    (last.op = "set" /\ last.scope = "vlan" /\ last.mc # <<>>) =>
        /\ NotifiedVids # {}
        /\ \A a \in NotifiedVids : a.len = 2 /\ a.num = last.r.vlanid

(* C31: batadv_find_option returns the first entry of the table, in table  *)
(* order, whose name equals the requested name exactly, and no entry iff   *)
(* no entry has that name; the names of each table are pairwise distinct,  *)
(* so the result does not depend on the order of the entries.              *)
DistinctNames(tbl) == \A i, j \in DOMAIN tbl : tbl[i].name = tbl[j].name => i = j
\* a get or set that reaches the lookup of its name
LooksUp ==
    /\ last.op \in {"get", "set"} /\ IdAttrs /\ Has("BATADV_ATTR_OPTION_NAME")
    /\ last.op = "set" => Has("BATADV_ATTR_OPTION_TYPE")
C31_FindOption ==
    /\ \A scope \in {"mesh", "hardif", "vlan"} : DistinctNames(Tbl(scope))
    /\ LooksUp =>
          /\ batadv_find_option(last.r.name, Tbl(last.scope)) = LastIdx
          /\ LastIdx = 0 <=> last.ret = -EOPNOTSUPP /\ last.trace = <<>>
          /\ \A i \in Callbacks : last.trace[i].opt = LastOpt.name
\* a get by the name of a later entry of the table, which calls its get
C31_Witness ==
    /\ LooksUp /\ last.op = "get" /\ LastIdx > 1 /\ EvAt("get") # {} /\ last.ret = 0
\* a name that differs from an entry's in the case of one letter
C31_WitnessCase ==
    /\ LooksUp /\ last.r.name = "Hop_penalty" /\ last.ret = -EOPNOTSUPP
\* a name that is a proper prefix of an entry's
C31_WitnessPrefix ==
    /\ LooksUp /\ last.r.name = "hop_penalt" /\ last.ret = -EOPNOTSUPP

(* C32: in a mesh set of gw_mode that reaches the set callback, whatever   *)
(* the value, batadv_gw_reselect() and batadv_gw_check_client_stop() are   *)
(* both called before the gateway mode is stored, and                      *)
(* batadv_gw_tvlv_container_update() is called after it.                   *)
GwModeSet ==
    /\ last.op = "set" /\ last.scope = "mesh" /\ last.r.name = "gw_mode"
    /\ EvAt("set") # {}
GwStore ==
    {i \in EvAt("atomic_set") : last.trace[i].opt = "gw_mode"}
C32_GwModeOrder ==
    GwModeSet =>
        /\ Cardinality(GwStore) = 1
        /\ Cardinality(EvAt("batadv_gw_reselect")) = 1
        /\ Cardinality(EvAt("batadv_gw_check_client_stop")) = 1
        /\ Cardinality(EvAt("batadv_gw_tvlv_container_update")) = 1
        /\ \A st \in GwStore :
              /\ \A i \in EvAt("set") : i < st
              /\ \A i \in EvAt("batadv_gw_reselect") : i < st
              /\ \A i \in EvAt("batadv_gw_check_client_stop") : i < st
              /\ \A i \in EvAt("batadv_gw_tvlv_container_update") : st < i
\* a set of "client" that changed the mode
C32_Witness ==
    /\ GwModeSet /\ last.ret = 0
    /\ objs.priv[last.r.mesh_ifindex].gw_mode = BATADV_GW_MODE_CLIENT
    /\ last.s0.priv[last.r.mesh_ifindex].gw_mode # BATADV_GW_MODE_CLIENT
\* a set of a string that names no mode
C32_WitnessOther ==
    /\ GwModeSet /\ LastVal.val.string \notin
          {BATADV_GW_MODE_OFF_NAME, BATADV_GW_MODE_CLIENT_NAME, BATADV_GW_MODE_SERVER_NAME}

(* C33: in each of the three notifiers the failure path calls              *)
(* genlmsg_cancel() only with a header that genlmsg_put() has assigned in  *)
(* that call: no run reaches the cancel with hdr never written, the run    *)
(* in which set succeeded and the descriptor's get then fails included.    *)
C33_CancelWithHeader ==
    \A i \in EvAt("genlmsg_cancel") : last.trace[i].opt # "unset"

(* C34: once all the set requests that ran at the same time on one option  *)
(* of one scope object have returned, each having broadcast its            *)
(* notification, the value of the notification broadcast last equals the   *)
(* value the option finally holds.                                         *)
Quiescent == \A p \in Procs : procs[p].pc = "returned"
Broadcasters == {p \in Procs : IsSetProc(p) /\ procs[p].seq > 0}
LastBroadcast(n) ==
    CHOOSE p \in Broadcasters :
        /\ procs[p].r.name = n
        /\ \A q \in Broadcasters : procs[q].r.name = n => procs[q].seq <= procs[p].seq
C34_LastNotifyIsFinal ==
    Quiescent =>
        \A p \in Broadcasters :
            (\A q \in Procs : IsSetProc(q) /\ procs[q].r.name = procs[p].r.name
                                => q \in Broadcasters) =>
                Let(LastBroadcast(procs[p].r.name), LAMBDA b :
                    ReplyValue(procs[b].mc[1], ConcOption(b).type)
                        = OptionGet(ConcOption(b), objs, procs[b].r.mesh_ifindex,
                                    NullObj).val)

(* C35: every message a get handler or a notifier allocates is disposed of *)
(* exactly once on every path: it is handed to the transport               *)
(* (genlmsg_reply() or genlmsg_multicast_netns(), which consume it whatever*)
(* they return) or freed with nlmsg_free(), never both and never neither,  *)
(* and only after it was allocated.                                        *)
Allocated == EvAt("nlmsg_new")
Handed ==
    EvAt("genlmsg_reply") \cup EvAt("genlmsg_multicast_netns")
        \cup EvAt("genlmsg_multicast_netns_failed")
Freed == EvAt("nlmsg_free")
C35_MessageDisposedOnce ==
    /\ Cardinality(Allocated) <= 1
    /\ Cardinality(Handed) + Cardinality(Freed) = Cardinality(Allocated)
    /\ \A i \in Handed \cup Freed : \A a \in Allocated : a < i
    /\ EvAt("nlmsg_new_failed") # {} => Allocated = {}
\* a get whose message was freed because the descriptor's get failed
C35_Witness ==
    /\ last.op = "get" /\ Cardinality(Allocated) = 1 /\ Cardinality(Freed) = 1
    /\ Handed = {}
\* a notifier whose message was freed on its failure path
C35_WitnessNotify ==
    /\ last.op = "set" /\ Cardinality(Allocated) = 1 /\ Cardinality(Freed) = 1
    /\ EvAt("genlmsg_cancel") # {} /\ Handed = {}
\* a reply the transport refused, and a multicast it refused
C35_WitnessRefused ==
    /\ Cardinality(Allocated) = 1 /\ Freed = {}
    /\ \/ last.op = "get" /\ EvAt("genlmsg_reply") # {} /\ last.ret < 0
       \/ last.op = "set" /\ EvAt("genlmsg_multicast_netns_failed") # {}
\* a message delivered
C35_WitnessSent ==
    /\ Cardinality(Allocated) = 1 /\ Freed = {}
    /\ last.reply # <<>> \/ last.mc # <<>>

(* C36: every enumeration terminates.  A call of a dump handler that the   *)
(* dump continues after has emitted at least one complete entry and        *)
(* advanced the cursor; any other call has added nothing to the message    *)
(* and ends the enumeration, also when the get of the entry at the cursor  *)
(* keeps failing with an error other than -EOPNOTSUPP.  So every dump that *)
(* has started ends.                                                       *)
DumpProgress ==
    last.op = "dump" =>
        \/ /\ pc = "dumping"
           /\ \E i \in DOMAIN last.msg.ents : last.msg.ents[i].ended
           /\ last.args0 > last.start /\ last.args0 <= Len(Tbl(last.scope))
        \/ /\ pc = "done"
           /\ last.msg.ents = <<>>
C36_DumpTerminates ==
    /\ []DumpProgress
    /\ (pc = "dumping") ~> (pc = "done")
\* a dump ended by a call at an entry whose get fails again: nothing added
C36_Witness ==
    /\ DumpResolved /\ pc = "done" /\ cb.calls > 1
    /\ last.start < Len(Tbl(last.scope)) /\ last.args0 = last.start
    /\ EvAt("get") # {} /\ last.msg.ents = <<>>
\* a dump that went through the whole table in more than two calls
C36_WitnessWhole ==
    /\ DumpResolved /\ pc = "done" /\ cb.calls > 2
    /\ last.args0 = Len(Tbl(last.scope))

(* C37: a set makes its checks in a fixed order: a missing attribute       *)
(* (-EINVAL), an unknown name (-EOPNOTSUPP), a kind that differs from the  *)
(* descriptor's (-EINVAL), a value that does not decode (-EINVAL), no      *)
(* device with the mesh ifindex (-ENODEV), a device that is no mesh        *)
(* (-EINVAL), then the resolution of the scope object, then the set        *)
(* callback.  So a malformed value for a mesh that does not exist fails    *)
(* -EINVAL, not -ENODEV; and the code returned depends on the attributes   *)
(* and the state alone.                                                    *)
SetHandler(scope, r, s, env) ==
    CASE scope = "mesh" -> batadv_set_option(r, s, env)
      [] scope = "hardif" -> batadv_set_option_hardif(r, s, env)
      [] scope = "vlan" -> batadv_set_option_vlan(r, s, env)
\* the code of the first check of that order the last request fails; 1 when
\* it passes the six checks made before the scope object is resolved
FirstFailure ==
    IF ~(IdAttrs /\ Has("BATADV_ATTR_OPTION_NAME") /\ Has("BATADV_ATTR_OPTION_TYPE"))
    THEN -EINVAL
    ELSE IF LastIdx = 0 THEN -EOPNOTSUPP
    ELSE IF last.r.type # LastOpt.type THEN -EINVAL
    ELSE IF LastVal.ret < 0 THEN -EINVAL
    ELSE IF last.r.mesh_ifindex \notin NetDevs THEN -ENODEV
    ELSE IF last.r.mesh_ifindex \notin Meshes THEN -EINVAL
    ELSE 1
C37_SetCheckOrder ==
    last.op = "set" =>
        /\ FirstFailure < 0 => last.ret = FirstFailure /\ Callbacks = {}
                               /\ objs = last.s0
        /\ FirstFailure = 1 => Hold(DevObj(last.r.mesh_ifindex)) = last.trace[1]
        /\ EvAt("set") # {} => FirstFailure = 1 /\ Resolves
        /\ \A env \in Envs : SetHandler(last.scope, last.r, last.s0, env).ret = last.ret
\* a value that does not decode, for a mesh that does not exist
C37_Witness ==
    /\ last.op = "set" /\ IdAttrs /\ Named /\ Has("BATADV_ATTR_OPTION_TYPE")
    /\ last.r.type = LastOpt.type /\ LastVal.ret < 0
    /\ last.r.mesh_ifindex \notin NetDevs
    /\ last.ret = -EINVAL
\* an unknown name with a kind and a value that fit no descriptor
C37_WitnessName ==
    /\ last.op = "set" /\ IdAttrs /\ Has("BATADV_ATTR_OPTION_NAME")
    /\ Has("BATADV_ATTR_OPTION_TYPE") /\ LastIdx = 0
    /\ last.r.mesh_ifindex \notin NetDevs /\ last.ret = -EOPNOTSUPP
\* a set whose callback ran and whose notification then failed
C37_WitnessSet ==
    /\ last.op = "set" /\ EvAt("set") # {} /\ last.ret = 0
    /\ EvAt("nlmsg_new_failed") # {}

(* C38: a successful set changes only the named option of the scope object *)
(* it addresses: every other option of that object and every option of     *)
(* the other meshes, hard interfaces and VLANs keeps its value.  Mesh      *)
(* ap_isolation reads and writes the untagged VLAN of the mesh only, VLAN  *)
(* ap_isolation the VLAN with the tagged id only, and a mesh ap_isolation  *)
(* get or set fails -ENOENT when the mesh has no untagged VLAN (a get      *)
(* whose message could be allocated: it fails -ENOMEM before otherwise).   *)
FieldOf(n) == IF n = "isolation_mask" THEN "isolation_mark_mask" ELSE n
\* the VLAN an ap_isolation request of the last scope addresses
IsolationVlan ==
    IF last.scope = "mesh" THEN <<last.r.mesh_ifindex, BATADV_NO_FLAGS>>
    ELSE <<last.r.mesh_ifindex, BATADV_VLAN_HAS_TAG + last.r.vlanid>>
MeshIsolation ==
    /\ last.op \in {"get", "set"} /\ last.scope = "mesh" /\ ReachesResolution
    /\ last.r.name = "ap_isolation" /\ last.r.mesh_ifindex \in Meshes
C38_SetFrame ==
    /\ (last.op = "set" /\ last.ret = 0) =>
          /\ \A k \in Meshes : \A f \in DOMAIN InitPriv :
                objs.priv[k][f] # last.s0.priv[k][f] =>
                    /\ last.scope = "mesh" /\ k = last.r.mesh_ifindex
                    /\ f = FieldOf(last.r.name)
          /\ \A v \in VlanObjs :
                objs.vlan[v] # last.s0.vlan[v] =>
                    /\ last.scope \in {"mesh", "vlan"} /\ last.r.name = "ap_isolation"
                    /\ v = IsolationVlan
          /\ \A h \in HardIfs : \A f \in DOMAIN InitObjs.hardif[h] :
                objs.hardif[h][f] # last.s0.hardif[h][f] =>
                    /\ last.scope = "hardif" /\ h = last.r.hard_ifindex
                    /\ f = FieldOf(last.r.name)
    /\ (/\ last.op = "get" /\ last.scope \in {"mesh", "vlan"}
        /\ last.r.name = "ap_isolation" /\ last.reply # <<>>) =>
          /\ IsolationVlan \in VlanObjs
          /\ ReplyValue(last.reply[1], "NLA_FLAG").vbool
                = NotNot(objs.vlan[IsolationVlan].ap_isolation)
    /\ (MeshIsolation /\ IsolationVlan \notin VlanObjs /\ EvAt("nlmsg_new_failed") = {}) =>
          /\ last.ret = -ENOENT
          /\ objs = last.s0 /\ last.reply = <<>>
\* a mesh get of ap_isolation that answers false after the tagged VLAN of
\* the same mesh was set to true
C38_Witness ==
    /\ last.op = "get" /\ last.scope = "mesh" /\ last.r.name = "ap_isolation"
    /\ last.reply # <<>> /\ ReplyValue(last.reply[1], "NLA_FLAG").vbool = 0
    /\ \E v \in VlanObjs : /\ v[1] = last.r.mesh_ifindex /\ v[2] # BATADV_NO_FLAGS
                           /\ objs.vlan[v].ap_isolation = 1
\* a VLAN get that answers false after the untagged VLAN was set to true
C38_WitnessVlan ==
    /\ last.op = "get" /\ last.scope = "vlan" /\ last.r.name = "ap_isolation"
    /\ last.reply # <<>> /\ ReplyValue(last.reply[1], "NLA_FLAG").vbool = 0
    /\ <<last.r.mesh_ifindex, BATADV_NO_FLAGS>> \in VlanObjs
    /\ objs.vlan[<<last.r.mesh_ifindex, BATADV_NO_FLAGS>>].ap_isolation = 1
\* a successful set that changed a value
C38_WitnessSet ==
    /\ last.op = "set" /\ last.ret = 0 /\ objs # last.s0 /\ last.scope = "vlan"
\* a mesh set of ap_isolation on the mesh without untagged VLAN
C38_WitnessAbsent ==
    /\ MeshIsolation /\ IsolationVlan \notin VlanObjs /\ last.op = "set"
    /\ EvAt("set") # {}
\* a mesh get of ap_isolation on that mesh, its message allocated
C38_WitnessAbsentGet ==
    /\ MeshIsolation /\ IsolationVlan \notin VlanObjs /\ last.op = "get"
    /\ EvAt("get") # {}

====
